---- MODULE Spec2Model ----
(***************************************************************************)
(* A model of the two state machines of the repository:                    *)
(*                                                                         *)
(*  - the run supervisor, src/run_bot_loop.py: the 200-iteration loop that *)
(*    restarts the Tor service, probes the exit address, spawns one worker *)
(*    and copies its merged output to the terminal and to the log;         *)
(*  - the navigation engine, src/ultimate_bot_tor.py: class UltimateBot.   *)
(*                                                                         *)
(* The supervisor is modelled statement by statement: pc holds the source  *)
(* line of run_bot_loop.py that is executed next.                          *)
(***************************************************************************)
EXTENDS Integers, Sequences, FiniteSets, TLC

(***************************************************************************)
(* Bounds of the model and constants of the program.                       *)
(***************************************************************************)
\* range(200), run_bot_loop.py line 8
Budget == 200
\* the most lines one worker writes to its merged stdout/stderr
MaxLines == 2

\* pc of a supervisor that has run off the end of the script
Finished == 0
\* pc of a supervisor killed by an uncaught exception
Crashed == -1

\* what a worker may write: a decodable line, or bytes that the text-mode
\* pipe (universal_newlines=True) cannot decode
LineVals == {"out", "undecodable"}
\* what the address probe may read: nothing (curl failed), or an address
IpVals == {"", "198.51.100.7"}
\* exit statuses of os.system and of the worker
ExitCodes == {0, 1}
\* process.returncode before wait() has collected it; also "no process yet"
None == -2

VARIABLES
    \* ---- supervisor, src/run_bot_loop.py
    pc,         \* source line executed next (Finished, Crashed when stopped)
    i,          \* the loop variable, 0-based as in range(200); -1 before the loop
    ip,         \* the variable ip (line 23)
    line,       \* the variable line of the copy loop (line 40)
    process,    \* the Popen object bound to `process`: child id, returncode, stdout
    children,   \* the child processes that exist: id -> state, pipe, emitted, status
    terminal,   \* what print() wrote since the current iteration began
    logbuf,     \* written to logfile, not yet flushed
    logdisk,    \* flushed to full_run_log.txt since the current iteration began
    logopen,    \* the logfile object is open
    trace,      \* the steps of the current iteration that have been executed
    spawned,    \* how many workers Popen has started so far
    restart_rc, \* what os.system returned in this iteration (the script drops it)
    fault,      \* the exception that killed the supervisor, "none" otherwise
    \* ---- navigation engine, src/ultimate_bot_tor.py, class UltimateBot
    use_browser,  \* self.use_browser
    headless,     \* self.headless
    stealth,      \* self.stealth
    use_tor,      \* self.use_tor
    driver,       \* self.driver: "none", or the strategy that created it
    current_url,  \* self.current_url
    current_soup, \* self.current_soup
    browser_page, \* the page the browser displays: its URL and markup
    tried,        \* the driver strategies start_browser has tried, with outcome
    served,       \* the response the last operation received, if any
    ret,          \* the last public operation and what it returned
    closed,       \* close() has been called
    sent,         \* the HTTP requests the last operation sent, in order
    faults,       \* the calls that raised during the last operation
    escaped,      \* an exception left the last operation
    paced,        \* goto took its delay (line 213) during the last operation
    \* ---- the worker's entry point, src/ultimate_bot_tor.py main()
    main,         \* the command line, the place reached in main, the calls made
    \* ---- a caller of the engine
    held          \* the element the caller keeps, and whether its page stands

supvars == <<pc, i, ip, line, process, children, terminal, logbuf, logdisk,
             logopen, trace, spawned, restart_rc, fault>>

engvars == <<use_browser, headless, stealth, use_tor, driver, current_url, current_soup,
             browser_page, tried, served, ret, closed, sent, faults, escaped,
             paced, main, held>>

vars == <<pc, i, ip, line, process, children, terminal, logbuf, logdisk,
          logopen, trace, spawned, restart_rc, fault,
          use_browser, headless, stealth, use_tor, driver, current_url, current_soup,
          browser_page, tried, served, ret, closed, sent, faults, escaped,
          paced, main, held>>

(***************************************************************************)
(* Sequences                                                               *)
(***************************************************************************)
IsPrefix(s, t) == Len(s) <= Len(t) /\ SubSeq(t, 1, Len(s)) = s

RECURSIVE SelectKind(_, _)
SelectKind(s, k) ==
    IF s = <<>> THEN <<>>
    ELSE IF Head(s).k = k THEN <<Head(s)>> \o SelectKind(Tail(s), k)
         ELSE SelectKind(Tail(s), k)

(***************************************************************************)
(* The script, statement by statement.                                     *)
(***************************************************************************)
PrintLines == {10, 14, 20, 24, 28, 41, 48}
WriteLines == {11, 15, 21, 25, 29, 42, 49}
FlushLines == {12, 16, 22, 26, 30, 43, 50}

\* a script that probes before it restarts the proxy
Statements_ProbeFirst ==
    <<10, 11, 12, 14, 15, 16, 23, 18, 20, 21, 22, 17, 24, 25, 26, 28, 29, 30,
      32, 40, 41, 42, 43, 45, 46, 48, 49, 50, 51, 53>>

\* the statements of the script in the order of the text, by line
Statements ==
    <<10, 11, 12, 14, 15, 16, 17, 18, 20, 21, 22, 23, 24, 25, 26, 28, 29, 30,
      32, 40, 41, 42, 43, 45, 46, 48, 49, 50, 51, 53>>

\* the statement executed after the one at line l, when l falls through:
\* the next one of the text, except at the end of a loop body (43, 51),
\* which goes back to the loop's for statement, and at the end of the script
NextLine(l) ==
    CASE l = 43 -> 40
      [] l = 51 -> 8
      [] l = 53 -> Finished
      [] OTHER -> LET k == CHOOSE k \in 1..Len(Statements) : Statements[k] = l
                  IN  Statements[k + 1]

\* a message: its kind, the iteration number it carries, its text
Message(k, n, s) == [k |-> k, n |-> n, s |-> s]

\* what the print or write statement at line l emits
MessageAt(l) ==
    CASE l \in {10, 11} -> Message("header", i + 1, "")
      [] l \in {14, 15} -> Message("restarting", 0, "")
      [] l \in {20, 21} -> Message("fetching", 0, "")
      [] l \in {24, 25} -> Message("ip", 0, ip)
      [] l \in {28, 29} -> Message("launching", 0, "")
      [] l \in {41, 42} -> Message("line", 0, line)
      [] l \in {48, 49} -> Message("waiting", 0, "")

\* the state of the supervisor's state machine (spec section 4.3) a line is in
Phase(l) ==
    CASE l \in 10..18 -> "ROTATING_IDENTITY"
      [] l \in 20..26 -> "PROBING_IDENTITY"
      [] l \in 28..46 -> "RUNNING_WORKER"
      [] l \in 48..51 -> "COOLDOWN"
      [] OTHER -> "NONE"

(***************************************************************************)
(* Initial state: line 6 has opened the log, the loop has not started.     *)
(***************************************************************************)
NoProcess == [id |-> None, returncode |-> None, stdout |-> "closed"]

SupInit ==
    /\ pc = 8
    /\ i = -1
    /\ ip = ""
    /\ line = ""
    /\ process = NoProcess
    /\ children = <<>>
    /\ terminal = <<>>
    /\ logbuf = <<>>
    /\ logdisk = <<>>
    /\ logopen = TRUE
    /\ trace = <<>>
    /\ spawned = 0
    /\ restart_rc = None
    /\ fault = "none"

(***************************************************************************)
(* Supervisor steps.                                                       *)
(***************************************************************************)
\* line 8, for i in range(200): bind the next i and run the body, or leave
\* the loop. terminal and logdisk keep only what the current iteration
\* wrote (the script never reads either back), so a new iteration starts
\* them afresh, with the record of its steps.
ForNext ==
    /\ pc = 8
    /\ IF i + 1 < Budget
       THEN /\ i' = i + 1
            /\ pc' = 10
            /\ terminal' = <<>>
            /\ logdisk' = <<>>
            /\ trace' = <<>>
            /\ restart_rc' = None
       ELSE /\ pc' = 53
            /\ UNCHANGED <<i, terminal, logdisk, trace, restart_rc>>
    /\ UNCHANGED <<ip, line, process, children, logbuf, logopen, spawned, fault>>
    /\ UNCHANGED engvars

\* print(...)
PrintStmt ==
    /\ pc \in PrintLines
    /\ terminal' = Append(terminal, MessageAt(pc))
    /\ pc' = NextLine(pc)
    /\ UNCHANGED <<i, ip, line, process, children, logbuf, logdisk, logopen,
                   trace, spawned, restart_rc, fault>>
    /\ UNCHANGED engvars

\* logfile.write(...)
WriteStmt ==
    /\ pc \in WriteLines
    /\ logopen
    /\ logbuf' = Append(logbuf, MessageAt(pc))
    /\ pc' = NextLine(pc)
    /\ UNCHANGED <<i, ip, line, process, children, terminal, logdisk, logopen,
                   trace, spawned, restart_rc, fault>>
    /\ UNCHANGED engvars

\* a flush that leaves the written text in the buffer
FlushStmt_KeepsBuffer ==
    /\ pc \in FlushLines
    /\ pc' = NextLine(pc)
    /\ UNCHANGED <<i, ip, line, process, children, terminal, logbuf, logdisk,
                   logopen, trace, spawned, restart_rc, fault>>
    /\ UNCHANGED engvars

\* logfile.flush()
FlushStmt ==
    /\ pc \in FlushLines
    /\ logdisk' = logdisk \o logbuf
    /\ logbuf' = <<>>
    /\ pc' = NextLine(pc)
    /\ UNCHANGED <<i, ip, line, process, children, terminal, logopen,
                   trace, spawned, restart_rc, fault>>
    /\ UNCHANGED engvars

\* line 17, os.system("sudo service tor restart"): the status is dropped
RestartTor ==
    /\ pc = 17
    /\ \E rc \in ExitCodes : restart_rc' = rc
    /\ trace' = Append(trace, "restart")
    /\ pc' = NextLine(pc)
    /\ UNCHANGED <<i, ip, line, process, children, terminal, logbuf, logdisk,
                   logopen, spawned, fault>>
    /\ UNCHANGED engvars

\* line 18, time.sleep(10)
SettleSleep ==
    /\ pc = 18
    /\ trace' = Append(trace, "settle")
    /\ pc' = NextLine(pc)
    /\ UNCHANGED <<i, ip, line, process, children, terminal, logbuf, logdisk,
                   logopen, spawned, restart_rc, fault>>
    /\ UNCHANGED engvars

\* a supervisor that skips the worker when the probe read no address
AfterProbe_SkipOnFailure(a) == IF a = "" THEN 48 ELSE NextLine(23)

\* the statement that follows the probe, whatever it read
AfterProbe(a) == NextLine(23)

\* line 23, ip = os.popen("curl ...").read().strip(): empty when curl fails
ProbeIp ==
    /\ pc = 23
    /\ \E a \in IpVals : ip' = a /\ pc' = AfterProbe(a)
    /\ trace' = Append(trace, "probe")
    /\ UNCHANGED <<i, line, process, children, terminal, logbuf, logdisk,
                   logopen, spawned, restart_rc, fault>>
    /\ UNCHANGED engvars

NewChild == [state |-> "running", pipe |-> <<>>, emitted |-> <<>>, status |-> None]

\* where control goes when a statement raises: nothing in the script catches
OnException == Crashed

\* lines 32-38, subprocess.Popen([...]): a child with a pipe, or OSError
SpawnWorker ==
    /\ pc = 32
    /\ trace' = Append(trace, "spawn")
    /\ \/ /\ process' = [id |-> i + 1, returncode |-> None, stdout |-> "open"]
          /\ children' = (i + 1) :> NewChild @@ children
          /\ spawned' = spawned + 1
          /\ pc' = NextLine(pc)
          /\ fault' = fault
       \/ /\ pc' = OnException
          /\ fault' = "spawn"
          /\ UNCHANGED <<process, children, spawned>>
    /\ UNCHANGED <<i, ip, line, terminal, logbuf, logdisk, logopen, restart_rc>>
    /\ UNCHANGED engvars

\* line 40, for line in iter(process.stdout.readline, ''): the next line of
\* the pipe; '' at end of stream ends the loop; blocks while the pipe is
\* empty and its write end is open; undecodable bytes raise
ReadLine ==
    /\ pc = 40
    /\ process.id \in DOMAIN children
    /\ LET c == children[process.id] IN
       IF c.pipe # <<>>
       THEN /\ children' = [children EXCEPT ![process.id].pipe = Tail(c.pipe)]
            /\ IF Head(c.pipe) = "undecodable"
               THEN /\ pc' = OnException
                    /\ fault' = "read"
                    /\ line' = line
               ELSE /\ pc' = NextLine(pc)
                    /\ fault' = fault
                    /\ line' = Head(c.pipe)
       ELSE /\ c.state # "running"
            /\ pc' = 45
            /\ UNCHANGED <<children, line, fault>>
    /\ UNCHANGED <<i, ip, process, terminal, logbuf, logdisk, logopen, trace,
                   spawned, restart_rc>>
    /\ UNCHANGED engvars

\* line 45, process.stdout.close()
CloseStdout ==
    /\ pc = 45
    /\ process' = [process EXCEPT !.stdout = "closed"]
    /\ pc' = NextLine(pc)
    /\ UNCHANGED <<i, ip, line, children, terminal, logbuf, logdisk, logopen,
                   trace, spawned, restart_rc, fault>>
    /\ UNCHANGED engvars

\* a supervisor that gives up on a failed worker
AfterWait_FatalOnNonzero(rc) == IF rc # 0 THEN Crashed ELSE NextLine(46)

\* the statement that follows process.wait(), whatever status it returned
AfterWait(rc) == NextLine(46)

\* a wait that does not block: it returns while the child still runs
WaitReturns_NoBlock(c) == TRUE

\* wait() may return only once the child has exited
WaitReturns(c) == c.state = "exited"

\* the children left once wait() has collected child id: an exited child is
\* reaped by the wait, a live one stays
Reaped(ch, id) ==
    IF ch[id].state = "exited" THEN [k \in DOMAIN ch \ {id} |-> ch[k]] ELSE ch

\* line 46, process.wait(): blocks until the child has exited, reaps it and
\* stores its status in process.returncode; the script drops the value
WaitWorker ==
    /\ pc = 46
    /\ process.id \in DOMAIN children
    /\ LET c == children[process.id] IN
       /\ WaitReturns(c)
       /\ process' = [process EXCEPT !.returncode = c.status]
       /\ pc' = AfterWait(c.status)
    /\ children' = Reaped(children, process.id)
    /\ trace' = Append(trace, "wait")
    /\ UNCHANGED <<i, ip, line, terminal, logbuf, logdisk, logopen, spawned,
                   restart_rc, fault>>
    /\ UNCHANGED engvars

\* line 51, time.sleep(300), then back to the for statement
CooldownSleep ==
    /\ pc = 51
    /\ trace' = Append(trace, "cooldown")
    /\ pc' = NextLine(pc)
    /\ UNCHANGED <<i, ip, line, process, children, terminal, logbuf, logdisk,
                   logopen, spawned, restart_rc, fault>>
    /\ UNCHANGED engvars

\* line 53, logfile.close()
CloseLog ==
    /\ pc = 53
    /\ logopen' = FALSE
    /\ logdisk' = logdisk \o logbuf
    /\ logbuf' = <<>>
    /\ pc' = NextLine(pc)
    /\ UNCHANGED <<i, ip, line, process, children, terminal, trace, spawned,
                   restart_rc, fault>>
    /\ UNCHANGED engvars

(***************************************************************************)
(* The worker process (python3 -u ultimate_bot_tor.py ...), seen from the  *)
(* supervisor: it writes lines, may close its output early, and exits.     *)
(***************************************************************************)
WorkerEmit ==
    \E k \in DOMAIN children, l \in LineVals :
        /\ children[k].state = "running"
        /\ Len(children[k].emitted) < MaxLines
        /\ children' = [children EXCEPT ![k].pipe = Append(@, l),
                                        ![k].emitted = Append(@, l)]
        /\ UNCHANGED <<pc, i, ip, line, process, terminal, logbuf, logdisk,
                       logopen, trace, spawned, restart_rc, fault>>
        /\ UNCHANGED engvars

WorkerCloseOutput ==
    \E k \in DOMAIN children :
        /\ children[k].state = "running"
        /\ children' = [children EXCEPT ![k].state = "eof"]
        /\ UNCHANGED <<pc, i, ip, line, process, terminal, logbuf, logdisk,
                       logopen, trace, spawned, restart_rc, fault>>
        /\ UNCHANGED engvars

WorkerExit ==
    \E k \in DOMAIN children, rc \in ExitCodes :
        /\ children[k].state \in {"running", "eof"}
        /\ children' = [children EXCEPT ![k].state = "exited", ![k].status = rc]
        /\ UNCHANGED <<pc, i, ip, line, process, terminal, logbuf, logdisk,
                       logopen, trace, spawned, restart_rc, fault>>
        /\ UNCHANGED engvars

Supervisor ==
    \/ ForNext
    \/ PrintStmt
    \/ WriteStmt
    \/ FlushStmt
    \/ RestartTor
    \/ SettleSleep
    \/ ProbeIp
    \/ SpawnWorker
    \/ ReadLine
    \/ CloseStdout
    \/ WaitWorker
    \/ CooldownSleep
    \/ CloseLog

Worker ==
    \/ WorkerEmit
    \/ WorkerCloseOutput
    \/ WorkerExit

(***************************************************************************)
(* The navigation engine: URLs, markup, the web.                           *)
(*                                                                         *)
(* A URL or a reference (href, src) is held split the way urlparse splits  *)
(* it: scheme, host, whether the path starts with "/", and the path's      *)
(* segments. The empty string is the reference with every part empty.      *)
(***************************************************************************)
Ref(scheme, host, rooted, path) ==
    [scheme |-> scheme, host |-> host, rooted |-> rooted, path |-> path]

EmptyRef == Ref("", "", FALSE, <<>>)
\* an attribute the element does not have
AbsentRef == Ref("<absent>", "", FALSE, <<>>)
Absent == "<absent>"

UrlP == Ref("https", "site", TRUE, <<"p">>)
UrlQ == Ref("https", "site", TRUE, <<"d", "q">>)
Urls == {UrlP, UrlQ}

\* a reference urlparse rejects (ValueError: Invalid IPv6 URL)
BadRef == Ref("http", "[bad", FALSE, <<>>)

\* an element of the parsed tree: tag, attributes, text, length of its text
El(tag, href, src, name, content, title, text, chars) ==
    [tag |-> tag, href |-> href, src |-> src, name |-> name,
     content |-> content, title |-> title, text |-> text, chars |-> chars]

NoNode == El("<none>", AbsentRef, AbsentRef, Absent, Absent, Absent, "", 0)

\* an img element: src, alt and title
Img(src, alt, title) ==
    El("img", AbsentRef, src, Absent, Absent, title, "", 0) @@ [alt |-> alt]

\* a control inside a form: input, select or textarea. value is the value
\* attribute of an input and the selected option of a select; text is the
\* content of a textarea
Field(tag, name, type, value, text) ==
    [tag |-> tag, name |-> name, type |-> type, value |-> value, text |-> text]

\* a form element: its action and method attributes, its controls in
\* document order, the text inside it and its length
Form(action, method, fields, text, chars) ==
    El("form", AbsentRef, AbsentRef, Absent, Absent, Absent, text, chars)
        @@ [action |-> action, method |-> method, fields |-> fields]

\* the markup served at https://site/p, in document order
MarkupP ==
    << El("title", AbsentRef, AbsentRef, Absent, Absent, Absent, "T", 1),
       El("meta", AbsentRef, AbsentRef, "description", "D", Absent, "", 0),
       El("a", Ref("", "", TRUE, <<"a">>), AbsentRef, Absent, Absent, Absent, "X", 1),
       El("a", AbsentRef, AbsentRef, "anchor", Absent, Absent, "N", 1),
       El("a", EmptyRef, AbsentRef, Absent, Absent, Absent, "E", 1),
       El("a", Ref("http", "ext", TRUE, <<"b">>), AbsentRef, Absent, Absent, "t", "Y", 1),
       Img(Ref("", "", FALSE, <<"i.png">>), Absent, Absent),
       Img(AbsentRef, "no source", Absent),
       Form(AbsentRef, Absent,
            << Field("input", "q", Absent, "", "") >>, "", 0) >>

\* the markup served at https://site/d/q: no title and no meta; links
\* relative to the directory, a link no URL parser accepts, an image, a
\* form that posts to /search and has a submit button but no field q
MarkupQ ==
    << El("h1", AbsentRef, AbsentRef, Absent, Absent, Absent, "Q", 1),
       El("a", Ref("", "", FALSE, <<"c">>), AbsentRef, Absent, Absent, Absent, "C", 1),
       El("a", BadRef, AbsentRef, Absent, Absent, Absent, "B", 1),
       El("a", Ref("", "", FALSE, <<"..", "p">>), AbsentRef, Absent, Absent, "up", "U", 1),
       Img(Ref("https", "cdn", TRUE, <<"x", ".", "i.png">>), "pic", "t"),
       Form(Ref("", "", TRUE, <<"search">>), "POST",
            << Field("input", "user", "text", "u", ""),
               Field("input", "tok", "hidden", "t", ""),
               Field("input", "n", "number", "1", ""),
               Field("input", Absent, "text", "anonymous", ""),
               Field("select", "lang", Absent, "en", ""),
               Field("textarea", "msg", Absent, Absent, "hi"),
               Field("input", "e", Absent, Absent, ""),
               Field("input", Absent, "submit", "Go", "") >>, "hi", 2) >>

MarkupAt(url) == IF url = UrlP THEN MarkupP ELSE MarkupQ

\* status codes a server may answer with
StatusVals == {200, 201, 404}

Response(status, url, html) == [status |-> status, url |-> url, html |-> html]
NoResponse == Response(0, EmptyRef, <<>>)

\* BeautifulSoup(html, 'html.parser'): the tree; an object that is truthy
\* even when the markup is empty. None is the soup that is not loaded.
Parse(html) == [loaded |-> TRUE, nodes |-> html]
NoSoup == [loaded |-> FALSE, nodes |-> <<>>]

NoPage == [url |-> EmptyRef, html |-> <<>>]

\* CSS selectors: a tag and, optionally, an attribute that must be present
Sel(tag, attr) == [tag |-> tag, attr |-> attr]
SelLinks == Sel("a", "href")
SelImages == Sel("img", "")
SelForms == Sel("form", "")
\* 'form[action="/search"]', lines 469 and 492
SelSearchForm == Sel("form", "action=/search")
Selectors == {SelLinks, SelImages, SelForms, Sel("a", "title"), Sel("h1", ""),
              Sel("video", "")}

HasAttr(n, attr) ==
    CASE attr = "href" -> n.href # AbsentRef
      [] attr = "src" -> n.src # AbsentRef
      [] attr = "name" -> n.name # Absent
      [] attr = "title" -> n.title # Absent
      [] attr = "content" -> n.content # Absent
      [] attr = "action=/search" -> n.action = Ref("", "", TRUE, <<"search">>)
      [] OTHER -> FALSE

Matches(n, sel) == n.tag = sel.tag /\ (sel.attr = "" \/ HasAttr(n, sel.attr))

\* soup.select(selector): the matching elements in document order
RECURSIVE Select(_, _)
Select(nodes, sel) ==
    IF nodes = <<>> THEN <<>>
    ELSE IF Matches(Head(nodes), sel)
         THEN <<Head(nodes)>> \o Select(Tail(nodes), sel)
         ELSE Select(Tail(nodes), sel)

\* soup.select_one(selector): the first match, or None
SelectOne(nodes, sel) ==
    LET m == Select(nodes, sel) IN IF m = <<>> THEN NoNode ELSE Head(m)

\* element.get(attr, ''): the attribute, '' when the element lacks it
GetRef(r) == IF r = AbsentRef THEN EmptyRef ELSE r
GetStr(v) == IF v = Absent THEN "" ELSE v

(***************************************************************************)
(* urljoin(base, ref) of urllib.parse                                      *)
(***************************************************************************)
\* the segments with "." dropped and ".." removing the segment before it
RECURSIVE RemoveDots(_, _)
RemoveDots(done, todo) ==
    IF todo = <<>> THEN done
    ELSE IF Head(todo) = "." THEN RemoveDots(done, Tail(todo))
    ELSE IF Head(todo) = ".."
         THEN RemoveDots(IF done = <<>> THEN done ELSE SubSeq(done, 1, Len(done) - 1),
                         Tail(todo))
    ELSE RemoveDots(Append(done, Head(todo)), Tail(todo))

urljoin_KeepsBasePath(base, ref) ==
    IF base = EmptyRef THEN ref
    ELSE IF ref = EmptyRef THEN base
    ELSE IF ref.scheme # "" /\ ref.scheme # base.scheme THEN ref
    ELSE IF ref.host # "" THEN Ref(base.scheme, ref.host, ref.rooted, ref.path)
    ELSE Ref(base.scheme, base.host, TRUE, RemoveDots(<<>>, base.path \o ref.path))

urljoin(base, ref) ==
    IF base = EmptyRef THEN ref
    ELSE IF ref = EmptyRef THEN base
    ELSE IF ref.scheme # "" /\ ref.scheme # base.scheme THEN ref
    ELSE IF ref.host # "" THEN Ref(base.scheme, ref.host, ref.rooted, ref.path)
    ELSE IF ref.rooted THEN Ref(base.scheme, base.host, TRUE, RemoveDots(<<>>, ref.path))
    ELSE Ref(base.scheme, base.host, TRUE,
             RemoveDots(<<>>, (IF base.path = <<>> THEN <<>>
                               ELSE SubSeq(base.path, 1, Len(base.path) - 1)) \o ref.path))

\* urlparse inside urljoin raises ValueError on a reference it rejects;
\* urljoin returns before parsing when the base or the reference is empty
UrlJoinRaises(base, ref) == base # EmptyRef /\ ref = BadRef

(***************************************************************************)
(* Reference resolution of RFC 3986, section 5.2.2: what a browser does to *)
(* make the href or src property of an element absolute.                   *)
(***************************************************************************)
\* 5.2.3: the base path up to its last "/" followed by the reference's path
Merge(base, path) ==
    (IF base.path = <<>> THEN <<>> ELSE SubSeq(base.path, 1, Len(base.path) - 1))
        \o path

Resolve(base, ref) ==
    IF ref = BadRef THEN ref
    ELSE IF ref.scheme # "" THEN Ref(ref.scheme, ref.host, ref.rooted, RemoveDots(<<>>, ref.path))
    ELSE IF ref.host # "" THEN Ref(base.scheme, ref.host, ref.rooted, RemoveDots(<<>>, ref.path))
    ELSE IF ref.path = <<>> THEN base
    ELSE IF ref.rooted THEN Ref(base.scheme, base.host, TRUE, RemoveDots(<<>>, ref.path))
    ELSE Ref(base.scheme, base.host, TRUE, RemoveDots(<<>>, Merge(base, ref.path)))

\* a URL with a scheme and a host
IsAbsolute(ref) == ref.scheme # "" /\ ref.host # ""

(***************************************************************************)
(* The engine's state                                                      *)
(***************************************************************************)
\* "browser" if (self.use_browser and self.driver) else "requests"
InBrowserMode == use_browser /\ driver # "none"
Mode == IF InBrowserMode THEN "browser" ELSE "requests"

\* the last call: the operation, its argument (NoArg without), its result
NoArg == "-"
Returned(op, arg, val) == [op |-> op, arg |-> arg, val |-> val]

\* a call that raised: the element it was made on (0: none) and the call
Fault(node, at) == [node |-> node, at |-> at]
FaultAt(at) == IF at = "none" THEN {} ELSE {Fault(0, at)}

\* an HTTP request: the method, the URL and the fields sent with it
Request(method, url, fields) == [method |-> method, url |-> url, fields |-> fields]
NoFields == [n \in {} |-> ""]

\* the public operations whose calls to the driver, the HTTP session and the
\* parser all stand inside a try block with an except clause
Guarded ==
    {"start_browser", "goto", "find", "find_all", "click", "type_text",
     "get_text", "get_attribute", "submit_form", "search_google",
     "search_bing", "extract_links", "extract_images",
     "analyze_social_media_content", "get_page_info", "close"}

\* an exception leaves the operation when no except clause encloses the call
Escapes(op, fs) == fs # {} /\ op \notin Guarded

\* main() is not running
NoMain == [pc |-> "none"]

\* the caller keeps no element
NoHeld == [node |-> NoNode, kind |-> "none", live |-> FALSE]

\* UltimateBot.__init__ with the given flags
Constructed(b, h, s, t) ==
    /\ use_browser = b
    /\ headless = h
    /\ stealth = s
    /\ use_tor = t
    /\ driver = "none"
    /\ current_url = EmptyRef
    /\ current_soup = NoSoup
    /\ browser_page = NoPage
    /\ tried = <<>>
    /\ served = NoResponse
    /\ ret = Returned("__init__", NoArg, TRUE)
    /\ closed = FALSE
    /\ sent = <<>>
    /\ faults = {}
    /\ escaped = FALSE
    /\ paced = FALSE

(***************************************************************************)
(* start_browser                                                           *)
(***************************************************************************)
\* methods = [self._init_undetected_chrome, self._init_standard_chrome]
Methods == <<"undetected", "standard">>

\* a start that looks only at the driver, not at the flag
BrowserStartNeeded_IgnoresFlag == driver = "none"

\* line 109: nothing to do when the browser is not wanted or already runs
BrowserStartNeeded == use_browser /\ driver = "none"

\* the loop of lines 121-130 over the methods from position k on: ok[m] tells
\* whether method m succeeds; the first that does gives the driver
RECURSIVE TryMethods(_, _, _)
TryMethods(k, ok, log) ==
    IF k > Len(Methods)
    THEN [driver |-> "none", use_browser |-> FALSE, tried |-> log]
    ELSE IF ok[Methods[k]]
         THEN [driver |-> Methods[k], use_browser |-> TRUE,
               tried |-> Append(log, [m |-> Methods[k], ok |-> TRUE])]
         ELSE TryMethods(k + 1, ok, Append(log, [m |-> Methods[k], ok |-> FALSE]))

start_browser ==
    /\ ~closed
    /\ IF BrowserStartNeeded
       THEN \E ok \in [{"undetected", "standard"} -> BOOLEAN] :
                LET r == TryMethods(1, ok, tried) IN
                /\ driver' = r.driver
                /\ use_browser' = r.use_browser
                /\ tried' = r.tried
       ELSE UNCHANGED <<driver, use_browser, tried>>
    /\ ret' = Returned("start_browser", NoArg, TRUE)
    /\ sent' = <<>>
    /\ served' = NoResponse
    /\ faults' = {}
    /\ escaped' = Escapes("start_browser", {})
    /\ UNCHANGED <<headless, stealth, use_tor, current_url, current_soup, browser_page,
                   closed>>
    /\ paced' = FALSE
    /\ UNCHANGED supvars

(***************************************************************************)
(* goto                                                                    *)
(***************************************************************************)
\* the page a request for url ends on: the page itself when the web of the
\* model serves it, a page of that web after redirects otherwise
Landing(url) == IF url \in Urls THEN {url} ELSE Urls

\* a goto that does not look at the status
StatusOk_Unchecked(status) == TRUE

\* line 197: the statuses goto takes for a loaded page
StatusOk(status) == status = 200

\* lines 190-205: requests mode. at: the call that raised, "get" for
\* session.get (line 193), "parse" for BeautifulSoup (line 205)
GotoRequests(resp, at) ==
    IF at = "get"
    THEN [ok |-> FALSE, url |-> current_url, soup |-> current_soup, f |-> FaultAt(at)]
    ELSE IF ~StatusOk(resp.status)
    THEN [ok |-> FALSE, url |-> current_url, soup |-> current_soup, f |-> {}]
    ELSE IF at = "parse"
    THEN [ok |-> FALSE, url |-> resp.url, soup |-> current_soup, f |-> FaultAt(at)]
    ELSE [ok |-> TRUE, url |-> resp.url, soup |-> Parse(resp.html), f |-> {}]

\* lines 183-188 and 205: browser mode. at: the call that raised
GotoBrowser(page, at) ==
    CASE at = "get" -> [ok |-> FALSE, url |-> current_url, soup |-> current_soup]
      [] at = "current_url" -> [ok |-> FALSE, url |-> current_url, soup |-> current_soup]
      [] at = "page_source" -> [ok |-> FALSE, url |-> page.url, soup |-> current_soup]
      [] at = "parse" -> [ok |-> FALSE, url |-> page.url, soup |-> current_soup]
      [] OTHER -> [ok |-> TRUE, url |-> page.url, soup |-> Parse(page.html)]

\* lines 176-221 for one URL. land: the page the URL leads to; the delay of
\* line 213 stands on the path that returns True and on no other
Goto(url) ==
    \E land \in Landing(url) :
       IF InBrowserMode
       THEN \E at \in {"none", "get", "current_url", "page_source", "parse"} :
                LET page == [url |-> land, html |-> MarkupAt(land)]
                    r == GotoBrowser(page, at)
                IN  /\ browser_page' = IF at = "get" THEN browser_page ELSE page
                    /\ current_url' = r.url
                    /\ current_soup' = r.soup
                    /\ ret' = Returned("goto", url, r.ok)
                    /\ served' = NoResponse
                    /\ sent' = <<>>
                    /\ faults' = FaultAt(at)
                    /\ escaped' = Escapes("goto", FaultAt(at))
                    /\ paced' = r.ok
       ELSE \E status \in StatusVals, at \in {"none", "get", "parse"} :
                LET resp == Response(status, land, MarkupAt(land))
                    r == GotoRequests(resp, at)
                IN  /\ served' = IF at = "get" THEN NoResponse ELSE resp
                    /\ current_url' = r.url
                    /\ current_soup' = r.soup
                    /\ ret' = Returned("goto", url, r.ok)
                    /\ browser_page' = browser_page
                    /\ sent' = <<Request("GET", url, NoFields)>>
                    /\ faults' = r.f
                    /\ escaped' = Escapes("goto", r.f)
                    /\ paced' = r.ok

goto ==
    /\ ~closed
    /\ \E url \in Urls : Goto(url)
    /\ UNCHANGED <<use_browser, headless, stealth, use_tor, driver, tried, closed>>
    /\ UNCHANGED supvars

(***************************************************************************)
(* find, find_all                                                          *)
(***************************************************************************)
\* a find that has no parsed-markup branch
FindInSoup_NoFallback(sel) == NoNode

\* lines 233-236: requests mode
FindInSoup(sel) ==
    IF current_soup.loaded THEN SelectOne(current_soup.nodes, sel) ELSE NoNode

\* lines 227-231, 237: browser mode; the wait times out when nothing matches
FindInBrowser(sel, raised) ==
    IF raised THEN NoNode ELSE SelectOne(browser_page.html, sel)

\* the faults of a call the driver alone can raise
DriverFault(raised, at) == IF InBrowserMode /\ raised THEN FaultAt(at) ELSE {}

\* a find that refreshes the tree of the session from the page on display
find_Reparsing ==
    /\ ~closed
    /\ \E sel \in Selectors, raised \in BOOLEAN :
           /\ InBrowserMode \/ ~raised
           /\ ret' = Returned("find", sel, IF InBrowserMode THEN FindInBrowser(sel, raised)
                                           ELSE FindInSoup(sel))
           /\ faults' = DriverFault(raised, "wait")
           /\ escaped' = Escapes("find", DriverFault(raised, "wait"))
    /\ current_soup' = IF InBrowserMode THEN Parse(browser_page.html) ELSE current_soup
    /\ sent' = <<>>
    /\ served' = NoResponse
    /\ UNCHANGED <<use_browser, headless, stealth, use_tor, driver, current_url,
                   browser_page, tried, closed>>
    /\ paced' = FALSE
    /\ UNCHANGED supvars

find ==
    /\ ~closed
    /\ \E sel \in Selectors, raised \in BOOLEAN :
           /\ InBrowserMode \/ ~raised
           /\ ret' = Returned("find", sel, IF InBrowserMode THEN FindInBrowser(sel, raised)
                                           ELSE FindInSoup(sel))
           /\ faults' = DriverFault(raised, "wait")
           /\ escaped' = Escapes("find", DriverFault(raised, "wait"))
    /\ sent' = <<>>
    /\ served' = NoResponse
    /\ UNCHANGED <<use_browser, headless, stealth, use_tor, driver, current_url,
                   current_soup, browser_page, tried, closed>>
    /\ paced' = FALSE
    /\ UNCHANGED supvars

\* a find_all that reports a Document that is not loaded as an element
FindAll_NoneInList(sel, raised) ==
    IF InBrowserMode
    THEN IF raised THEN <<>> ELSE Select(browser_page.html, sel)
    ELSE IF current_soup.loaded THEN Select(current_soup.nodes, sel) ELSE <<NoNode>>

\* lines 242-250: what find_all returns. raised: find_elements raised
FindAll(sel, raised) ==
    IF InBrowserMode
    THEN IF raised THEN <<>> ELSE Select(browser_page.html, sel)
    ELSE IF current_soup.loaded THEN Select(current_soup.nodes, sel) ELSE <<>>

find_all ==
    /\ ~closed
    /\ \E sel \in Selectors, raised \in BOOLEAN :
           /\ InBrowserMode \/ ~raised
           /\ ret' = Returned("find_all", sel, FindAll(sel, raised))
           /\ faults' = DriverFault(raised, "find_elements")
           /\ escaped' = Escapes("find_all", DriverFault(raised, "find_elements"))
    /\ sent' = <<>>
    /\ served' = NoResponse
    /\ UNCHANGED <<use_browser, headless, stealth, use_tor, driver, current_url,
                   current_soup, browser_page, tried, closed>>
    /\ paced' = FALSE
    /\ UNCHANGED supvars

(***************************************************************************)
(* click, type_text                                                        *)
(***************************************************************************)
\* what click and type_text return: line 256 and 281 without a browser,
\* 262 and 287 when the selector finds nothing, 275 and 303 when the
\* driver raises, 272 and 300 when the action is done
ActionOutcome(case) ==
    CASE case = "unsupported" -> FALSE
      [] case = "not found" -> FALSE
      [] case = "failed" -> FALSE
      [] case = "done" -> TRUE

\* the page the browser displays after a click on an element: the target
\* of a link into the web of the model; any other click stays on the page
Clicked(n) ==
    IF n.tag = "a" /\ n.href \notin {AbsentRef, EmptyRef, BadRef}
                  /\ Resolve(browser_page.url, n.href) \in Urls
    THEN [url |-> Resolve(browser_page.url, n.href),
          html |-> MarkupAt(Resolve(browser_page.url, n.href))]
    ELSE browser_page

\* lines 252-275 with a selector. at: the driver call that raised
Click(sel, at) ==
    IF ~InBrowserMode
    THEN [val |-> ActionOutcome("unsupported"), page |-> browser_page, f |-> {}]
    ELSE IF FindInBrowser(sel, at = "wait") = NoNode
    THEN [val |-> ActionOutcome("not found"), page |-> browser_page,
          f |-> IF at = "wait" THEN FaultAt(at) ELSE {}]
    ELSE IF at = "click"
    THEN [val |-> ActionOutcome("failed"), page |-> browser_page, f |-> FaultAt(at)]
    ELSE [val |-> ActionOutcome("done"), page |-> Clicked(FindInBrowser(sel, FALSE)),
          f |-> {}]

click ==
    /\ ~closed
    /\ \E sel \in Selectors, at \in {"none", "wait", "click"} :
           LET r == Click(sel, at) IN
           /\ InBrowserMode \/ at = "none"
           /\ ret' = Returned("click", sel, r.val)
           /\ browser_page' = r.page
           /\ faults' = r.f
           /\ escaped' = Escapes("click", r.f)
    /\ sent' = <<>>
    /\ served' = NoResponse
    /\ UNCHANGED <<use_browser, headless, stealth, use_tor, driver, current_url,
                   current_soup, tried, closed>>
    /\ paced' = FALSE
    /\ UNCHANGED supvars

\* lines 277-303 with a selector. at: the driver call that raised
TypeText(sel, at) ==
    IF ~InBrowserMode
    THEN [val |-> ActionOutcome("unsupported"), f |-> {}]
    ELSE IF FindInBrowser(sel, at = "wait") = NoNode
    THEN [val |-> ActionOutcome("not found"),
          f |-> IF at = "wait" THEN FaultAt(at) ELSE {}]
    ELSE IF at \in {"clear", "send_keys"}
    THEN [val |-> ActionOutcome("failed"), f |-> FaultAt(at)]
    ELSE [val |-> ActionOutcome("done"), f |-> {}]

type_text ==
    /\ ~closed
    /\ \E sel \in Selectors, at \in {"none", "wait", "clear", "send_keys"} :
           LET r == TypeText(sel, at) IN
           /\ InBrowserMode \/ at = "none"
           /\ ret' = Returned("type_text", sel, r.val)
           /\ faults' = r.f
           /\ escaped' = Escapes("type_text", r.f)
    /\ sent' = <<>>
    /\ served' = NoResponse
    /\ UNCHANGED <<use_browser, headless, stealth, use_tor, driver, current_url,
                   current_soup, browser_page, tried, closed>>
    /\ paced' = FALSE
    /\ UNCHANGED supvars

(***************************************************************************)
(* get_text, get_attribute                                                 *)
(***************************************************************************)
\* the selectors and the attribute names the two are called with
Queried == {Sel("a", "title"), Sel("video", "")}
AttrNames == {"title", "name"}

\* lines 305-321 with a selector: "" when find gives None (line 313) or the
\* driver raises (line 320). at: the driver call that raised
GetText(sel, at) ==
    LET n == IF InBrowserMode THEN FindInBrowser(sel, at = "wait") ELSE FindInSoup(sel) IN
    IF n = NoNode THEN [val |-> "", f |-> IF at = "wait" THEN FaultAt(at) ELSE {}]
    ELSE IF at = "text" THEN [val |-> "", f |-> FaultAt(at)]
    ELSE [val |-> n.text, f |-> {}]

get_text ==
    /\ ~closed
    /\ \E sel \in Queried, at \in {"none", "wait", "text"} :
           LET r == GetText(sel, at) IN
           /\ InBrowserMode \/ at = "none"
           /\ (at = "none") = (r.f = {})
           /\ ret' = Returned("get_text", sel, r.val)
           /\ faults' = r.f
           /\ escaped' = Escapes("get_text", r.f)
    /\ sent' = <<>>
    /\ served' = NoResponse
    /\ UNCHANGED <<use_browser, headless, stealth, use_tor, driver, current_url,
                   current_soup, browser_page, tried, closed>>
    /\ paced' = FALSE
    /\ UNCHANGED supvars

\* lines 323-339 with a selector: element.get_attribute(attr) or "" in
\* browser mode, element.get(attr, "") otherwise
GetAttribute(sel, attr, at) ==
    LET n == IF InBrowserMode THEN FindInBrowser(sel, at = "wait") ELSE FindInSoup(sel) IN
    IF n = NoNode THEN [val |-> "", f |-> IF at = "wait" THEN FaultAt(at) ELSE {}]
    ELSE IF at = "get_attribute" THEN [val |-> "", f |-> FaultAt(at)]
    ELSE [val |-> GetStr(n[attr]), f |-> {}]

get_attribute ==
    /\ ~closed
    /\ \E sel \in Queried, attr \in AttrNames, at \in {"none", "wait", "get_attribute"} :
           LET r == GetAttribute(sel, attr, at) IN
           /\ InBrowserMode \/ at = "none"
           /\ (at = "none") = (r.f = {})
           /\ ret' = Returned("get_attribute", <<sel, attr>>, r.val)
           /\ faults' = r.f
           /\ escaped' = Escapes("get_attribute", r.f)
    /\ sent' = <<>>
    /\ served' = NoResponse
    /\ UNCHANGED <<use_browser, headless, stealth, use_tor, driver, current_url,
                   current_soup, browser_page, tried, closed>>
    /\ paced' = FALSE
    /\ UNCHANGED supvars

(***************************************************************************)
(* submit_form                                                             *)
(***************************************************************************)
\* the caller's form_data
FormData == {NoFields, ("q" :> "cats") @@ ("user" :> "me")}

\* the pages the browser may display after a form is sent or a key pressed
Pages == {[url |-> u, html |-> MarkupAt(u)] : u \in Urls}

\* dict.update (line 391) and dict item assignment: the entries of b, and
\* those of a under the other names
Update(a, b) == b @@ a

\* line 385
SeededTypes == {"text", "email", "password", "hidden"}

\* lines 381-388: what one control adds to form_fields
FieldEntry(f) ==
    IF f.name \in {Absent, ""} THEN NoFields
    ELSE IF f.tag = "input"
         THEN IF (IF f.type = Absent THEN "text" ELSE f.type) \in SeededTypes
              THEN f.name :> GetStr(f.value)
              ELSE NoFields
    ELSE IF f.tag = "textarea" THEN f.name :> f.text
    ELSE NoFields

\* lines 379-388: the loop over the controls of the form
RECURSIVE FormFields(_)
FormFields(fields) ==
    IF fields = <<>> THEN NoFields
    ELSE Update(FormFields(SubSeq(fields, 1, Len(fields) - 1)),
                FieldEntry(fields[Len(fields)]))

\* str.lower() on the method names of the model
Lower(m) == CASE m = "POST" -> "post" [] m = "GET" -> "get" [] OTHER -> m

\* a submit_form that compares the method as written in the markup
Method_CaseSensitive(form) == IF form.method = Absent THEN "get" ELSE form.method

\* line 373
Method(form) == Lower(IF form.method = Absent THEN "get" ELSE form.method)

\* line 376
SubmitUrl(url, form) ==
    IF GetRef(form.action) # EmptyRef THEN urljoin(url, form.action) ELSE url

\* lines 390-397: the request that is sent
SubmitRequest(url, form, data) ==
    Request(IF Method(form) = "post" THEN "POST" ELSE "GET",
            SubmitUrl(url, form), Update(FormFields(form.fields), data))

\* line 399
SubmitOk(status) == status = 200

\* lines 363-405: requests mode on the Document (url, soup). resp: the
\* answer to the request; at: the call that raised, "request" for
\* session.post or session.get, "parse" for BeautifulSoup (line 401)
SubmitRequests(url, soup, data, sel, resp, at) ==
    LET form == SelectOne(soup.nodes, sel)
        keep == [val |-> FALSE, url |-> url, soup |-> soup, sent |-> <<>>,
                 served |-> NoResponse, f |-> {}]
    IN  IF ~soup.loaded THEN keep
        ELSE IF form = NoNode THEN keep
        ELSE IF at = "request"
        THEN [keep EXCEPT !.sent = <<SubmitRequest(url, form, data)>>,
                          !.f = FaultAt(at)]
        ELSE IF ~SubmitOk(resp.status)
        THEN [keep EXCEPT !.sent = <<SubmitRequest(url, form, data)>>,
                          !.served = resp]
        ELSE IF at = "parse"
        THEN [keep EXCEPT !.sent = <<SubmitRequest(url, form, data)>>,
                          !.served = resp, !.url = resp.url, !.f = FaultAt(at)]
        ELSE [val |-> TRUE, url |-> resp.url, soup |-> Parse(resp.html),
              sent |-> <<SubmitRequest(url, form, data)>>, served |-> resp,
              f |-> {}]

\* the controls of every form of a page, in document order
RECURSIVE Controls(_)
Controls(nodes) ==
    IF nodes = <<>> THEN <<>>
    ELSE (IF Head(nodes).tag = "form" THEN Head(nodes).fields ELSE <<>>)
             \o Controls(Tail(nodes))

\* find('input[type="submit"], button[type="submit"]'), line 356
SubmitButton(html) ==
    LET m == SelectSeq(Controls(html), LAMBDA f : f.tag = "input" /\ f.type = "submit")
    IN  IF m = <<>> THEN NoNode ELSE Head(m)

\* lines 344-361: browser mode on the displayed page. at: the driver call
\* that raised; "type" is a call inside type_text, which returns False and
\* is not looked at (line 353); nav: the page displayed after the form is sent
SubmitBrowser(page, data, sel, at, nav) ==
    LET form == IF at = "wait" THEN NoNode ELSE SelectOne(page.html, sel)
        sender == IF SubmitButton(page.html) # NoNode THEN "click" ELSE "submit"
    IN  IF form = NoNode
        THEN [val |-> FALSE, page |-> page, f |-> FaultAt(IF at = "wait" THEN at ELSE "none")]
        ELSE IF at = sender
        THEN [val |-> FALSE, page |-> page, f |-> FaultAt(at)]
        ELSE [val |-> TRUE, page |-> nav,
              f |-> IF at = "type" /\ data # NoFields THEN FaultAt(at) ELSE {}]

\* what a call leaves in the session: r.val is returned, r.url and r.soup
\* are the Document, r.page the page displayed, r.sent, r.served and r.f
\* the requests, the response and the faults of the call
Effect(op, arg, r) ==
    /\ ret' = Returned(op, arg, r.val)
    /\ current_url' = r.url
    /\ current_soup' = r.soup
    /\ browser_page' = r.page
    /\ sent' = r.sent
    /\ served' = r.served
    /\ faults' = r.f
    /\ escaped' = Escapes(op, r.f)

\* lines 341-409 in the session's mode
SubmitForm(data, sel, resp, at, nav) ==
    IF InBrowserMode
    THEN LET r == SubmitBrowser(browser_page, data, sel, at, nav) IN
         [val |-> r.val, url |-> current_url, soup |-> current_soup,
          page |-> r.page, sent |-> <<>>, served |-> NoResponse, f |-> r.f]
    ELSE SubmitRequests(current_url, current_soup, data, sel, resp, at)
             @@ [page |-> browser_page]

\* the answers the web may give to a submit_form of the session
Answers(sel) ==
    LET form == SelectOne(current_soup.nodes, sel) IN
    {Response(status, u, MarkupAt(u)) :
        status \in StatusVals,
        u \in IF form = NoNode THEN {UrlP} ELSE Landing(SubmitUrl(current_url, form))}

\* the faults and answers of the environment that make a difference to r
Distinct(r, at, first) ==
    /\ (at = "none") = (r.f = {})
    /\ r.val \/ r.served # NoResponse \/ first

submit_form ==
    /\ ~closed
    /\ \E data \in FormData, sel \in {SelForms, SelSearchForm} :
       IF InBrowserMode
       THEN \E at \in {"none", "wait", "type", "click", "submit"}, nav \in Pages :
                /\ Distinct(SubmitForm(data, sel, NoResponse, at, nav), at,
                            nav.url = UrlP)
                /\ Effect("submit_form", <<data, sel>>,
                          SubmitForm(data, sel, NoResponse, at, nav))
       ELSE \E resp \in Answers(sel), at \in {"none", "request", "parse"} :
                /\ Distinct(SubmitForm(data, sel, resp, at, NoPage), at,
                            resp.status = 200)
                /\ Effect("submit_form", <<data, sel>>,
                          SubmitForm(data, sel, resp, at, NoPage))
    /\ UNCHANGED <<use_browser, headless, stealth, use_tor, driver, tried, closed>>
    /\ paced' = FALSE
    /\ UNCHANGED supvars

(***************************************************************************)
(* search_google, search_bing                                              *)
(***************************************************************************)
\* lines 452 and 482: the pages of the two search engines
UrlGoogle == Ref("https", "www.google.com", FALSE, <<>>)
UrlBing == Ref("https", "www.bing.com", FALSE, <<>>)

\* the form_data of lines 469 and 492 for the query of the model
Query == "q" :> "cats"

\* lines 462 and 486: find('input[name="q"], textarea[name="q"]') for
\* Google, find('input[name="q"]') for Bing
BoxTags(op) == IF op = "search_google" THEN {"input", "textarea"} ELSE {"input"}

SearchBox(html, tags) ==
    LET m == SelectSeq(Controls(html), LAMBDA f : f.tag \in tags /\ f.name = "q")
    IN  IF m = <<>> THEN NoNode ELSE Head(m)

\* lines 461-466 and 485-490 on the page the goto displayed. at: the driver
\* call that raised: "wait" in find, "type" in type_text, which returns
\* False and is not looked at, "return" for send_keys(Keys.RETURN); nav:
\* the page displayed after the key is pressed. The pages of the model
\* have no consent button (lines 456-458)
SearchBrowser(op, page, at, nav) ==
    LET box == IF at = "wait" THEN NoNode ELSE SearchBox(page.html, BoxTags(op)) IN
    IF box = NoNode
    THEN [val |-> FALSE, page |-> page, f |-> FaultAt(IF at = "wait" THEN at ELSE "none")]
    ELSE IF at = "return"
    THEN [val |-> FALSE, page |-> page, f |-> FaultAt(at)]
    ELSE [val |-> TRUE, page |-> nav, f |-> IF at = "type" THEN FaultAt(at) ELSE {}]

\* the faults of the goto inside a search (lines 452 and 482); paced below:
\* that goto returned True, and so took the delay of line 213
GotoCalls == {"get", "current_url", "page_source", "parse"}

\* lines 447-498 in browser mode. land: the page the engine's URL leads to
SearchInBrowser(op, land, at, nav) ==
    LET page == [url |-> land, html |-> MarkupAt(land)]
        g == GotoBrowser(page, IF at \in GotoCalls THEN at ELSE "none")
        s == SearchBrowser(op, page, at, nav)
    IN  IF ~g.ok
        THEN [val |-> FALSE, url |-> g.url, soup |-> g.soup,
              page |-> IF at = "get" THEN browser_page ELSE page,
              sent |-> <<>>, served |-> NoResponse, f |-> FaultAt(at),
              paced |-> FALSE]
        ELSE [val |-> s.val, url |-> g.url, soup |-> g.soup, page |-> s.page,
              sent |-> <<>>, served |-> NoResponse, f |-> s.f, paced |-> TRUE]

\* lines 447-498 in requests mode. first: the answer to the goto; resp: the
\* answer to the form; at: the call that raised, "request" and "reparse"
\* being session.get or post and BeautifulSoup inside submit_form
SearchInRequests(url, first, resp, at) ==
    LET g == GotoRequests(first, IF at \in GotoCalls THEN at ELSE "none")
        s == SubmitRequests(g.url, g.soup, Query, SelSearchForm, resp,
                            CASE at = "request" -> at [] at = "reparse" -> "parse"
                              [] OTHER -> "none")
    IN  IF ~g.ok
        THEN [val |-> FALSE, url |-> g.url, soup |-> g.soup, page |-> browser_page,
              sent |-> <<Request("GET", url, NoFields)>>,
              served |-> IF at = "get" THEN NoResponse ELSE first, f |-> g.f,
              paced |-> FALSE]
        ELSE [val |-> s.val, url |-> s.url, soup |-> s.soup, page |-> browser_page,
              sent |-> <<Request("GET", url, NoFields)>> \o s.sent,
              served |-> IF s.served = NoResponse THEN first ELSE s.served,
              f |-> s.f, paced |-> TRUE]

\* a search with the query of the model on the engine at url
Search(op, url) ==
    /\ ~closed
    /\ IF InBrowserMode
       THEN \E land \in Landing(url), nav \in Pages,
               at \in GotoCalls \cup {"none", "wait", "type", "return"} :
                /\ Distinct(SearchInBrowser(op, land, at, nav), at, nav.url = UrlP)
                /\ Effect(op, Query, SearchInBrowser(op, land, at, nav))
                /\ paced' = SearchInBrowser(op, land, at, nav).paced
       ELSE \E land \in Landing(url), status \in StatusVals,
               at \in {"none", "get", "parse", "request", "reparse"} :
                LET first == Response(status, land, MarkupAt(land))
                    form == SelectOne(first.html, SelSearchForm)
                    asked == StatusOk(status) /\ at \notin GotoCalls /\ form # NoNode
                IN  \E resp \in IF asked
                                THEN {Response(st, u, MarkupAt(u)) :
                                         st \in StatusVals,
                                         u \in Landing(SubmitUrl(land, form))}
                                ELSE {NoResponse} :
                        /\ (at = "none") = (SearchInRequests(url, first, resp, at).f = {})
                        /\ Effect(op, Query, SearchInRequests(url, first, resp, at))
                        /\ paced' = SearchInRequests(url, first, resp, at).paced
    /\ UNCHANGED <<use_browser, headless, stealth, use_tor, driver, tried, closed>>
    /\ UNCHANGED supvars

search_google == Search("search_google", UrlGoogle)

search_bing == Search("search_bing", UrlBing)

(***************************************************************************)
(* extract_links, extract_images                                           *)
(***************************************************************************)
\* the driver calls made on one element; one of them may raise
LinkCalls == {"none", "href", "text", "title"}
ImageCalls == {"none", "src", "alt", "title"}

\* lines 512-519: href, text and title of one element. In browser mode
\* get_attribute and get_text (lines 305-339) call the driver and give ""
\* when the call raises; the driver returns the href property, which the
\* browser has made absolute. at: the driver call that raised
LinkFields(n, at) ==
    IF InBrowserMode
    THEN [href |-> IF at = "href" \/ n.href = AbsentRef THEN EmptyRef
                   ELSE Resolve(browser_page.url, n.href),
          text |-> IF at = "text" THEN "" ELSE n.text,
          title |-> IF at = "title" THEN "" ELSE GetStr(n.title)]
    ELSE [href |-> GetRef(n.href), text |-> n.text, title |-> GetStr(n.title)]

\* lines 521-528 and 532-533: the record of one element; none when href is
\* empty and none when urljoin raises
LinkRecords(n, at) ==
    LET f == LinkFields(n, at) IN
    IF f.href # EmptyRef /\ ~UrlJoinRaises(current_url, f.href)
    THEN << [url |-> urljoin(current_url, f.href), text |-> f.text, title |-> f.title] >>
    ELSE <<>>

\* lines 510-533: the loop over the elements; ats[k] is the call that
\* raised on element k
RECURSIVE LinksOf(_, _)
LinksOf(nodes, ats) ==
    IF nodes = <<>> THEN <<>>
    ELSE LinkRecords(Head(nodes), Head(ats)) \o LinksOf(Tail(nodes), Tail(ats))

\* the calls that raised while the elements were processed
LinkFaultsOf(nodes, ats) ==
    {Fault(k, ats[k]) : k \in {j \in 1..Len(nodes) : InBrowserMode /\ ats[j] # "none"}}
    \cup {Fault(k, "urljoin") :
              k \in {j \in 1..Len(nodes) :
                         LET f == LinkFields(nodes[j], ats[j]) IN
                         f.href # EmptyRef /\ UrlJoinRaises(current_url, f.href)}}

extract_links ==
    /\ ~closed
    /\ \E raised \in BOOLEAN :
           LET nodes == FindAll(SelLinks, raised) IN
           \E j \in 0..Len(nodes), at \in LinkCalls :
               LET ats == [k \in 1..Len(nodes) |-> IF k = j THEN at ELSE "none"]
                   fs == DriverFault(raised, "find_elements") \cup LinkFaultsOf(nodes, ats)
               IN
                   /\ InBrowserMode \/ (~raised /\ at = "none")
                   /\ (j = 0) = (at = "none")
                   /\ ret' = Returned("extract_links", NoArg, LinksOf(nodes, ats))
                   /\ faults' = fs
                   /\ escaped' = Escapes("extract_links", fs)
    /\ sent' = <<>>
    /\ served' = NoResponse
    /\ UNCHANGED <<use_browser, headless, stealth, use_tor, driver, current_url,
                   current_soup, browser_page, tried, closed>>
    /\ paced' = FALSE
    /\ UNCHANGED supvars

\* lines 557-564: src, alt and title of one element
ImageFields(n, at) ==
    IF InBrowserMode
    THEN [src |-> IF at = "src" \/ n.src = AbsentRef THEN EmptyRef
                  ELSE Resolve(browser_page.url, n.src),
          alt |-> IF at = "alt" THEN "" ELSE GetStr(n.alt),
          title |-> IF at = "title" THEN "" ELSE GetStr(n.title)]
    ELSE [src |-> GetRef(n.src), alt |-> GetStr(n.alt), title |-> GetStr(n.title)]

\* lines 566-573 and 577-578
ImageRecords(n, at) ==
    LET f == ImageFields(n, at) IN
    IF f.src # EmptyRef /\ ~UrlJoinRaises(current_url, f.src)
    THEN << [url |-> urljoin(current_url, f.src), alt |-> f.alt, title |-> f.title] >>
    ELSE <<>>

\* lines 555-578
RECURSIVE ImagesOf(_, _)
ImagesOf(nodes, ats) ==
    IF nodes = <<>> THEN <<>>
    ELSE ImageRecords(Head(nodes), Head(ats)) \o ImagesOf(Tail(nodes), Tail(ats))

ImageFaultsOf(nodes, ats) ==
    {Fault(k, ats[k]) : k \in {j \in 1..Len(nodes) : InBrowserMode /\ ats[j] # "none"}}
    \cup {Fault(k, "urljoin") :
              k \in {j \in 1..Len(nodes) :
                         LET f == ImageFields(nodes[j], ats[j]) IN
                         f.src # EmptyRef /\ UrlJoinRaises(current_url, f.src)}}

extract_images ==
    /\ ~closed
    /\ \E raised \in BOOLEAN :
           LET nodes == FindAll(SelImages, raised) IN
           \E j \in 0..Len(nodes), at \in ImageCalls :
               LET ats == [k \in 1..Len(nodes) |-> IF k = j THEN at ELSE "none"]
                   fs == DriverFault(raised, "find_elements") \cup ImageFaultsOf(nodes, ats)
               IN
                   /\ InBrowserMode \/ (~raised /\ at = "none")
                   /\ (j = 0) = (at = "none")
                   /\ ret' = Returned("extract_images", NoArg, ImagesOf(nodes, ats))
                   /\ faults' = fs
                   /\ escaped' = Escapes("extract_images", fs)
    /\ sent' = <<>>
    /\ served' = NoResponse
    /\ UNCHANGED <<use_browser, headless, stealth, use_tor, driver, current_url,
                   current_soup, browser_page, tried, closed>>
    /\ paced' = FALSE
    /\ UNCHANGED supvars

(***************************************************************************)
(* get_page_info                                                           *)
(***************************************************************************)
RECURSIVE TextLength(_)
TextLength(nodes) ==
    IF nodes = <<>> THEN 0 ELSE Head(nodes).chars + TextLength(Tail(nodes))

\* a lookup without the defaults of lines 694 and 697
MetaContent_NoDefault(nodes, name) ==
    LET m == SelectSeq(nodes, LAMBDA n : n.tag = "meta" /\ n.name = name) IN
    IF m = <<>> THEN Absent ELSE Head(m).content

\* soup.find('meta', attrs={'name': name}) and .get('content', '')
MetaContent(nodes, name) ==
    LET m == SelectSeq(nodes, LAMBDA n : n.tag = "meta" /\ n.name = name) IN
    IF m = <<>> THEN "" ELSE GetStr(Head(m).content)

\* soup.find('title') and its text
TitleOf(nodes) ==
    LET m == SelectSeq(nodes, LAMBDA n : n.tag = "title") IN
    IF m = <<>> THEN "" ELSE Head(m).text

\* lines 666-676: the snapshot before anything is read from the page
InfoDefaults ==
    [url |-> current_url, title |-> "", description |-> "", keywords |-> "",
     links_count |-> 0, images_count |-> 0, forms_count |-> 0,
     text_length |-> 0, mode |-> Mode]

\* lines 688-709: the fields read from a soup
InfoFrom(info, nodes) ==
    [info EXCEPT !.title = IF info.title = "" THEN TitleOf(nodes) ELSE info.title,
                 !.description = MetaContent(nodes, "description"),
                 !.keywords = MetaContent(nodes, "keywords"),
                 !.links_count = Len(Select(nodes, SelLinks)),
                 !.images_count = Len(Select(nodes, SelImages)),
                 !.forms_count = Len(Select(nodes, SelForms)),
                 !.text_length = TextLength(nodes)]

\* lines 678-721. at: the call that raised, in browser mode
PageInfo(at) ==
    IF InBrowserMode
    THEN CASE at = "title" -> InfoDefaults
           [] at \in {"page_source", "parse"} ->
                [InfoDefaults EXCEPT !.title = TitleOf(browser_page.html)]
           [] OTHER ->
                InfoFrom([InfoDefaults EXCEPT !.title = TitleOf(browser_page.html)],
                         browser_page.html)
    ELSE IF current_soup.loaded THEN InfoFrom(InfoDefaults, current_soup.nodes)
         ELSE InfoDefaults

get_page_info ==
    /\ ~closed
    /\ \E at \in {"none", "title", "page_source", "parse"} :
           /\ InBrowserMode \/ at = "none"
           /\ ret' = Returned("get_page_info", NoArg, PageInfo(at))
           /\ faults' = DriverFault(TRUE, at)
           /\ escaped' = Escapes("get_page_info", DriverFault(TRUE, at))
    /\ sent' = <<>>
    /\ served' = NoResponse
    /\ UNCHANGED <<use_browser, headless, stealth, use_tor, driver, current_url,
                   current_soup, browser_page, tried, closed>>
    /\ paced' = FALSE
    /\ UNCHANGED supvars

(***************************************************************************)
(* analyze_social_media_content                                            *)
(***************************************************************************)
\* 'name' in url_lower for one of the names: the substring test, on the
\* parts a URL of the model is made of
Mentions(url, names) ==
    url.host \in names \/ \E k \in 1..Len(url.path) : url.path[k] \in names

\* lines 606-619
Platform(url) ==
    CASE Mentions(url, {"x.com", "twitter.com"}) -> "twitter/x"
      [] Mentions(url, {"facebook.com"}) -> "facebook"
      [] Mentions(url, {"instagram.com"}) -> "instagram"
      [] Mentions(url, {"linkedin.com"}) -> "linkedin"
      [] OTHER -> "unknown"

\* lines 625-631: a script whose src names a JavaScript framework
Frameworks == {"react", "vue", "angular", "client-web"}
Dynamic(nodes) ==
    \E k \in 1..Len(nodes) :
        /\ nodes[k].tag = "script"
        /\ GetRef(nodes[k].src) # EmptyRef
        /\ Mentions(nodes[k].src, Frameworks)

\* lines 639-648: the content of the meta elements named description,
\* keywords or author; the markup of the model has no property attribute
RECURSIVE MetaData(_)
MetaData(nodes) ==
    IF nodes = <<>> THEN NoFields
    ELSE LET n == nodes[Len(nodes)]
             rest == MetaData(SubSeq(nodes, 1, Len(nodes) - 1))
         IN  IF n.tag = "meta" /\ n.name \in {"description", "keywords", "author"}
             THEN Update(rest, n.name :> GetStr(n.content))
             ELSE rest

\* line 635
MinimalText == 1000

\* lines 590-659: no call of the block goes to the driver, the HTTP
\* session or the parser
Analysis ==
    LET nodes == current_soup.nodes IN
    [platform |-> Platform(current_url),
     post_type |-> IF Platform(current_url) = "twitter/x"
                      /\ Mentions(current_url, {"status"})
                   THEN "tweet" ELSE "unknown",
     content_indicators |->
         (IF current_soup.loaded /\ Dynamic(nodes)
          THEN <<"JavaScript framework detected">> ELSE <<>>)
         \o (IF current_soup.loaded /\ TextLength(nodes) < MinimalText
             THEN <<"Minimal text content - likely requires JavaScript">> ELSE <<>>),
     meta_data |-> IF current_soup.loaded THEN MetaData(nodes) ELSE NoFields,
     dynamic_content |-> current_soup.loaded /\ Dynamic(nodes)]

analyze_social_media_content ==
    /\ ~closed
    /\ ret' = Returned("analyze_social_media_content", NoArg, Analysis)
    /\ faults' = {}
    /\ escaped' = Escapes("analyze_social_media_content", {})
    /\ sent' = <<>>
    /\ served' = NoResponse
    /\ UNCHANGED <<use_browser, headless, stealth, use_tor, driver, current_url,
                   current_soup, browser_page, tried, closed>>
    /\ paced' = FALSE
    /\ UNCHANGED supvars

(***************************************************************************)
(* close                                                                   *)
(***************************************************************************)
\* lines 813-822: driver.quit() and session.close(); the fields stay
close ==
    /\ ~closed
    /\ closed' = TRUE
    /\ ret' = Returned("close", NoArg, TRUE)
    /\ \E at \in {"none", "quit", "session.close"} :
           LET fs == FaultAt(at) IN
           /\ driver # "none" \/ at # "quit"
           /\ faults' = fs
           /\ escaped' = Escapes("close", fs)
    /\ sent' = <<>>
    /\ served' = NoResponse
    /\ UNCHANGED <<use_browser, headless, stealth, use_tor, driver, current_url,
                   current_soup, browser_page, tried>>
    /\ paced' = FALSE
    /\ UNCHANGED supvars

\* the operations of a session that no main() drives
Engine ==
    \/ start_browser /\ UNCHANGED <<main, held>>
    \/ goto /\ UNCHANGED <<main, held>>
    \/ find /\ UNCHANGED <<main, held>>
    \/ find_all /\ UNCHANGED <<main, held>>
    \/ click /\ UNCHANGED <<main, held>>
    \/ type_text /\ UNCHANGED <<main, held>>
    \/ get_text /\ UNCHANGED <<main, held>>
    \/ get_attribute /\ UNCHANGED <<main, held>>
    \/ submit_form /\ UNCHANGED <<main, held>>
    \/ search_google /\ UNCHANGED <<main, held>>
    \/ search_bing /\ UNCHANGED <<main, held>>
    \/ extract_links /\ UNCHANGED <<main, held>>
    \/ extract_images /\ UNCHANGED <<main, held>>
    \/ get_page_info /\ UNCHANGED <<main, held>>
    \/ analyze_social_media_content /\ UNCHANGED <<main, held>>
    \/ close /\ UNCHANGED <<main, held>>

(***************************************************************************)
(* main() and process_multiple_urls: the worker's entry point              *)
(***************************************************************************)
\* lines 989-994: the internal list
StatusUrl(id) == Ref("https", "x.com", TRUE, <<"Hitansh54", "status", id>>)
urls_to_process ==
    << StatusUrl("1931754193489957133"), StatusUrl("1931410374139777334"),
       StatusUrl("1931399970139296013"), StatusUrl("1930697596261060654") >>

\* the command lines, as parse_args (line 1013) returns them: a flag is
\* TRUE when given; an option that is not given is Absent (None), the list
\* of --urls is then <<>>; --info, --images, --save and --screenshot are
\* not given
AllArgs ==
    [interactive : BOOLEAN, batch : BOOLEAN,
     urls : {<<>>, <<UrlQ, StatusUrl("1")>>},
     search : {Absent, "", "cats"}, bing : {Absent, "cats"},
     url : {AbsentRef, UrlQ},
     browser : BOOLEAN, headless : BOOLEAN, tor : BOOLEAN, links : BOOLEAN]

\* the command lines of the model: every combination of the flags that
\* choose the path and the session, with or without --url, and every
\* combination of --search, --bing and --url on the single-URL path;
\* --links with --batch and with --urls
CommandLines ==
    {a \in AllArgs :
        /\ (a.interactive \/ a.batch \/ a.urls # <<>>)
               => (a.search = Absent /\ a.bing = Absent)
        /\ a.links => (~a.interactive /\ (a.batch \/ a.urls # <<>>))}

\* the truth value Python gives an option: None and "" are false
Truthy(v) == v \notin {Absent, ""}
TruthyUrl(v) == v \notin {AbsentRef, EmptyRef}

\* main() has parsed the command line a and stands at line 1015
Started(a) ==
    [pc |-> "dispatch", args |-> a, path |-> "none", list |-> <<>>, k |-> 1,
     calls |-> <<>>, results |-> <<>>]

\* UltimateBot(...) inside main: the fields __init__ assigns (lines 41-48)
Construct(b, h, s, t) ==
    /\ use_browser' = b
    /\ headless' = h
    /\ stealth' = s
    /\ use_tor' = t
    /\ driver' = "none"
    /\ current_url' = EmptyRef
    /\ current_soup' = NoSoup
    /\ browser_page' = NoPage
    /\ tried' = <<>>
    /\ served' = NoResponse
    /\ ret' = Returned("__init__", NoArg, TRUE)
    /\ closed' = FALSE
    /\ sent' = <<>>
    /\ faults' = {}
    /\ escaped' = FALSE
    /\ paced' = FALSE

\* the call an operation of the session has just returned from
Called == [op |-> ret'.op, arg |-> ret'.arg]

\* lines 1015-1046: the path main takes and the session it constructs.
\* interactive_mode (line 1016) reads two answers and then evaluates
\* args.browser (line 862), a name that function does not have: NameError
\* leaves interactive_mode and main, no session is constructed
main_dispatch ==
    /\ UNCHANGED held
    /\ main.pc = "dispatch"
    /\ LET a == main.args IN
       IF a.interactive
       THEN /\ main' = [main EXCEPT !.pc = "crashed", !.path = "interactive"]
            /\ UNCHANGED <<use_browser, headless, stealth, use_tor, driver, current_url,
                           current_soup, browser_page, tried, served, ret,
                           closed, sent, faults, escaped, paced>>
       ELSE IF a.batch
       THEN /\ Construct(a.browser, FALSE, TRUE, a.tor)
            /\ main' = [main EXCEPT !.pc = "enter", !.path = "batch",
                                    !.list = urls_to_process]
       ELSE IF a.urls # <<>>
       THEN /\ Construct(a.browser, FALSE, TRUE, FALSE)
            /\ main' = [main EXCEPT !.pc = "enter", !.path = "urls",
                                    !.list = a.urls]
       ELSE /\ Construct(a.browser, a.headless, TRUE, FALSE)
            /\ main' = [main EXCEPT !.pc = "enter", !.path = "single"]
    /\ UNCHANGED supvars

\* __enter__ (lines 824-827) of the with statements, lines 953 and 1046
main_enter ==
    /\ UNCHANGED held
    /\ main.pc = "enter"
    /\ start_browser
    /\ main' = [main EXCEPT !.pc = IF main.path = "single" THEN "navigate" ELSE "loop",
                            !.calls = Append(@, Called)]

\* a loop that ends at the first URL that does not load
process_url_StopsOnFailure ==
    /\ UNCHANGED held
    /\ main.pc = "loop"
    /\ main.k <= Len(main.list)
    /\ ~closed
    /\ Goto(main.list[main.k])
    /\ UNCHANGED <<use_browser, headless, stealth, use_tor, driver, tried, closed>>
    /\ UNCHANGED supvars
    /\ main' = IF ret'.val
               THEN [main EXCEPT !.pc = "info", !.calls = Append(@, Called)]
               ELSE [main EXCEPT !.pc = "exit", !.calls = Append(@, Called),
                        !.results = Append(@, [url |-> main.list[main.k],
                                               success |-> FALSE])]

\* lines 954-976: one URL of process_multiple_urls; a failed load gives
\* the result of line 973
process_url ==
    /\ UNCHANGED held
    /\ main.pc = "loop"
    /\ main.k <= Len(main.list)
    /\ ~closed
    /\ Goto(main.list[main.k])
    /\ UNCHANGED <<use_browser, headless, stealth, use_tor, driver, tried, closed>>
    /\ UNCHANGED supvars
    /\ main' = IF ret'.val
               THEN [main EXCEPT !.pc = "info", !.calls = Append(@, Called)]
               ELSE [main EXCEPT !.k = @ + 1, !.calls = Append(@, Called),
                        !.results = Append(@, [url |-> main.list[main.k],
                                               success |-> FALSE])]

\* the result of line 976 for a URL that loaded
Loaded == [url |-> main.list[main.k], success |-> TRUE]

\* lines 958-961: get_page_info for the result of a loaded URL; line 962
\* follows when --links is given, line 976 otherwise
process_info ==
    /\ UNCHANGED held
    /\ main.pc = "info"
    /\ get_page_info
    /\ main' = IF main.args.links
               THEN [main EXCEPT !.pc = "links", !.calls = Append(@, Called)]
               ELSE [main EXCEPT !.pc = "loop", !.k = @ + 1,
                                 !.calls = Append(@, Called),
                                 !.results = Append(@, Loaded)]

\* lines 962 and 976: extract_links for the result, with --links
process_links ==
    /\ UNCHANGED held
    /\ main.pc = "links"
    /\ extract_links
    /\ main' = [main EXCEPT !.pc = "loop", !.k = @ + 1,
                            !.calls = Append(@, Called),
                            !.results = Append(@, Loaded)]

\* a choice that looks at --url before the two searches
Navigation_UrlFirst(a) ==
    IF TruthyUrl(a.url) THEN [op |-> "goto", url |-> a.url]
    ELSE IF Truthy(a.search) THEN [op |-> "search_google", url |-> UrlGoogle]
    ELSE IF Truthy(a.bing) THEN [op |-> "search_bing", url |-> UrlBing]
    ELSE [op |-> "goto", url |-> IF urls_to_process # <<>> THEN urls_to_process[1]
                                 ELSE UrlGoogle]

\* lines 1047-1055: the operation the single-URL path calls, and on what
Navigation(a) ==
    IF Truthy(a.search) THEN [op |-> "search_google", url |-> UrlGoogle]
    ELSE IF Truthy(a.bing) THEN [op |-> "search_bing", url |-> UrlBing]
    ELSE IF TruthyUrl(a.url) THEN [op |-> "goto", url |-> a.url]
    ELSE [op |-> "goto", url |-> IF urls_to_process # <<>> THEN urls_to_process[1]
                                 ELSE UrlGoogle]

\* lines 1047-1055: the navigation of the single-URL path
main_navigate ==
    /\ UNCHANGED held
    /\ main.pc = "navigate"
    /\ LET n == Navigation(main.args) IN
       IF n.op = "search_google" THEN search_google
       ELSE IF n.op = "search_bing" THEN search_bing
       ELSE /\ ~closed
            /\ Goto(n.url)
            /\ UNCHANGED <<use_browser, headless, stealth, use_tor, driver, tried, closed>>
            /\ UNCHANGED supvars
    /\ main' = [main EXCEPT !.pc = "exit", !.calls = Append(@, Called)]

\* __exit__ (lines 829-831) at the end of the with block
main_exit ==
    /\ UNCHANGED held
    /\ \/ main.pc = "exit"
       \/ main.pc = "loop" /\ main.k > Len(main.list)
    /\ close
    /\ main' = [main EXCEPT !.pc = "done", !.calls = Append(@, Called)]

Main ==
    \/ main_dispatch
    \/ main_enter
    \/ process_url
    \/ process_info
    \/ process_links
    \/ main_navigate
    \/ main_exit

(***************************************************************************)
(* Elements a caller keeps                                                 *)
(***************************************************************************)
\* find as a caller uses it: the element returned (lines 231 and 235) is
\* kept, a WebElement of the page on display in browser mode, a Tag of
\* current_soup otherwise; None replaces nothing the caller has
find_kept ==
    /\ find
    /\ held' = IF ret'.val = NoNode THEN held
               ELSE [node |-> ret'.val,
                     kind |-> IF InBrowserMode THEN "element" ELSE "tag",
                     live |-> TRUE]

\* what a load does to the element kept: driver.get (line 185) replaces the
\* page the WebElements belong to, line 205 the tree the Tags belong to
goto_kept ==
    /\ goto
    /\ held' = [held EXCEPT !.live =
                   /\ @
                   /\ IF held.kind = "element" THEN faults' = FaultAt("get")
                      ELSE ~ret'.val]

\* lines 305-321 with an element (line 311): the driver raises
\* StaleElementReferenceException for an element of a page it has left,
\* a Tag answers whatever became of its tree. at: the call that raised
GetTextOf(h, at) ==
    IF InBrowserMode /\ h.kind = "element" /\ ~h.live
    THEN [val |-> "", f |-> FaultAt("text")]
    ELSE IF at = "text" THEN [val |-> "", f |-> FaultAt(at)]
    ELSE [val |-> h.node.text, f |-> {}]

get_text_kept ==
    /\ ~closed
    /\ held.node # NoNode
    /\ \E at \in {"none", "text"} :
           LET r == GetTextOf(held, at) IN
           /\ InBrowserMode \/ at = "none"
           /\ (at = "none") => (r.f = {} \/ ~held.live)
           /\ (at = "text") => held.live \/ held.kind = "tag"
           /\ ret' = Returned("get_text", held.node, r.val)
           /\ faults' = r.f
           /\ escaped' = Escapes("get_text", r.f)
    /\ sent' = <<>>
    /\ served' = NoResponse
    /\ UNCHANGED <<use_browser, headless, stealth, use_tor, driver, current_url,
                   current_soup, browser_page, tried, closed, held>>
    /\ paced' = FALSE
    /\ UNCHANGED supvars

\* lines 252-275 with an element (line 264): element.click() raises for an
\* element of a page the browser has left and for a Tag, which has no such
\* method. at: the driver call that raised
ClickOn(h, at) ==
    IF ~InBrowserMode
    THEN [val |-> ActionOutcome("unsupported"), page |-> browser_page, f |-> {}]
    ELSE IF h.kind = "tag" \/ ~h.live \/ at = "click"
    THEN [val |-> ActionOutcome("failed"), page |-> browser_page,
          f |-> FaultAt("click")]
    ELSE [val |-> ActionOutcome("done"), page |-> Clicked(h.node), f |-> {}]

click_kept ==
    /\ ~closed
    /\ held.node # NoNode
    /\ \E at \in {"none", "click"} :
           LET r == ClickOn(held, at) IN
           /\ (at = "click") => (InBrowserMode /\ held.kind = "element" /\ held.live)
           /\ ret' = Returned("click", held.node, r.val)
           /\ browser_page' = r.page
           /\ faults' = r.f
           /\ escaped' = Escapes("click", r.f)
           /\ held' = [held EXCEPT !.live = @ /\ (held.kind = "tag" \/ r.page = browser_page)]
    /\ sent' = <<>>
    /\ served' = NoResponse
    /\ UNCHANGED <<use_browser, headless, stealth, use_tor, driver, current_url,
                   current_soup, tried, closed>>
    /\ paced' = FALSE
    /\ UNCHANGED supvars

\* a caller that finds elements, loads pages and hands the element it kept
\* back to the session
Caller ==
    \/ start_browser /\ UNCHANGED <<main, held>>
    \/ find_kept /\ UNCHANGED main
    \/ goto_kept /\ UNCHANGED main
    \/ get_text_kept /\ UNCHANGED main
    \/ click_kept /\ UNCHANGED main
    \/ close /\ UNCHANGED <<main, held>>

(***************************************************************************)
(* The route of the traffic                                                *)
(***************************************************************************)
\* lines 103-104: the proxy of the anonymizing route
Socks == "socks5h://127.0.0.1:9050"
Direct == "direct"

\* lines 99-105: the proxies setup_session gives the HTTP session
SessionProxy == IF use_tor THEN Socks ELSE Direct

\* lines 141-160: the arguments strategy m starts Chrome with
ChromeArguments(m) ==
    {"--no-sandbox", "--disable-dev-shm-usage"}
        \cup (IF m = "standard" THEN {"--disable-gpu"} ELSE {})
        \cup (IF headless THEN {"--headless"} ELSE {})

\* Chrome goes through the proxy it is started with, and directly without
BrowserProxy ==
    IF ("--proxy-server=" \o Socks) \in ChromeArguments(driver)
    THEN Socks ELSE Direct

\* the routes the traffic of a step takes: that of the HTTP session for the
\* requests it sends, that of Chrome for driver.get (lines 185, 452 and 482)
\* and for the page a click, a key or a form makes the browser display
Routes ==
    (IF sent' # <<>> THEN {SessionProxy} ELSE {})
        \cup (IF InBrowserMode
                 /\ \/ ret'.op \in {"goto", "search_google", "search_bing"}
                    \/ /\ ret'.op \in {"click", "submit_form"}
                       /\ browser_page' # browser_page
              THEN {BrowserProxy} ELSE {})

(***************************************************************************)
(* Specifications                                                          *)
(***************************************************************************)
\* the supervisor's process holds no engine: its fields are those of the
\* constructor's defaults (line 40) and never change
Init ==
    SupInit /\ Constructed(TRUE, FALSE, TRUE, FALSE) /\ main = NoMain /\ held = NoHeld

\* an engine constructed with or without the browser; headless and use_tor,
\* which no operation below reads, keep the defaults of line 40; the
\* supervisor does not run
EngineInit ==
    /\ SupInit /\ main = NoMain /\ held = NoHeld
    /\ \E b \in BOOLEAN : Constructed(b, FALSE, TRUE, FALSE)

EngineSpec == EngineInit /\ [][Engine]_vars

\* a worker started with one of the command lines; no session exists yet
MainInit ==
    /\ SupInit
    /\ Constructed(TRUE, FALSE, TRUE, FALSE)
    /\ \E a \in CommandLines : main = Started(a)
    /\ held = NoHeld

MainSpec == MainInit /\ [][Main]_vars

\* a session constructed with any of the flags that no command line of
\* main can give together; the operations that load pages and submit forms
TrafficInit ==
    /\ SupInit
    /\ main = NoMain
    /\ held = NoHeld
    /\ \E b \in BOOLEAN, s \in BOOLEAN, t \in BOOLEAN : Constructed(b, FALSE, s, t)

Traffic ==
    \/ start_browser /\ UNCHANGED <<main, held>>
    \/ goto /\ UNCHANGED <<main, held>>
    \/ submit_form /\ UNCHANGED <<main, held>>
    \/ close /\ UNCHANGED <<main, held>>

TrafficSpec == TrafficInit /\ [][Traffic]_vars

\* the session of EngineSpec with a caller that keeps elements
CallerSpec == EngineInit /\ [][Caller]_vars

Next == Supervisor \/ Worker

Spec == Init /\ [][Next]_vars

\* the interpreter keeps executing the script: a statement that can run, runs
FairSpec == Spec /\ WF_vars(Supervisor)

(***************************************************************************)
(* Properties of the supervisor                                            *)
(***************************************************************************)
\* the worker of the current iteration has exited and wait() is about to
\* return its status
ExitPending(rc) ==
    /\ pc = 46
    /\ process.id \in DOMAIN children
    /\ children[process.id].state = "exited"
    /\ children[process.id].status = rc

\* the iteration after the one whose worker returned a nonzero status has
\* executed the proxy restart, and nothing else before it
RotatedAfterNonzero ==
    /\ pc = 18
    /\ process.id = i
    /\ process.returncode = 1
    /\ trace = <<"restart">>

\* C1: when the worker of iteration k < 200 exits with a nonzero status, the
\* supervisor goes on to the cooldown, iteration k+1 begins, and the first
\* step it executes is the proxy restart: until the restart has run, no
\* other step of iteration k+1 (settle, probe, spawn) has.
C1_NonzeroExitContinues ==
    /\ [][(pc = 46 /\ pc' # 46) => (pc' = 48 /\ i' = i)]_vars
    /\ [][(pc = 8 /\ pc' # 8 /\ i + 1 < Budget) => (pc' = 10 /\ i' = i + 1)]_vars
    /\ []((process.returncode = 1 /\ process.id = i /\ pc \in 10..17) => trace = <<>>)
    /\ ((ExitPending(1) /\ i + 1 < Budget) ~> RotatedAfterNonzero)

C1_Witness ==
    /\ RotatedAfterNonzero
    /\ i >= 1
    /\ spawned = i

\* the steps of one iteration, in the order of the state machine of the spec
Canon == <<"restart", "settle", "probe", "spawn", "wait", "cooldown">>

\* C2: within every iteration the steps restart, settle (ROTATING_IDENTITY),
\* probe (PROBING_IDENTITY), spawn, wait (RUNNING_WORKER) and cooldown occur
\* in this order and once each: what has been executed is always a prefix of
\* that sequence, the phase the supervisor is in agrees with it, an iteration
\* ends only when all of it has been executed, and a worker of the iteration
\* exists only after its restart, settle and probe.
C2_StepsInOrder ==
    /\ [](IsPrefix(trace, Canon))
    /\ []((Phase(pc) = "ROTATING_IDENTITY" => Len(trace) <= 1)
          /\ (Phase(pc) = "PROBING_IDENTITY" => Len(trace) \in {2, 3})
          /\ (Phase(pc) = "RUNNING_WORKER" => Len(trace) \in {3, 4})
          /\ (Phase(pc) = "COOLDOWN" => Len(trace) = 5))
    /\ [][(pc = 8 /\ pc' # 8) => (i = -1 \/ trace = Canon)]_vars
    /\ [](\A k \in DOMAIN children :
              k = i + 1 /\ SubSeq(trace, 1, 3) = <<"restart", "settle", "probe">>)

C2_Witness ==
    /\ pc = 8
    /\ trace = Canon
    /\ i = 1

\* C3: the supervisor stops only when the iteration budget is exhausted: a
\* stopped supervisor has run 200 iterations and spawned 200 workers.
C3_StopsOnlyAtBudget ==
    pc \in {Finished, Crashed} => (pc = Finished /\ i + 1 = Budget /\ spawned = Budget)

\* the messages of a kind written to the log so far in this iteration
Logged(k) == SelectKind(logdisk \o logbuf, k)

\* C4: a failure inside an iteration (Popen raising, the read of the
\* worker's output raising) is recorded and does not stop the supervisor.
C4_FailuresContained ==
    fault # "none" => (pc # Crashed /\ Logged("failure") # <<>>)

\* the text of the worker lines in a sequence of messages
RECURSIVE Texts(_)
Texts(s) == IF s = <<>> THEN <<>> ELSE <<Head(s).s>> \o Texts(Tail(s))

\* the worker lines among a sequence of messages
LinesOf(s) == Texts(SelectKind(s, "line"))

\* C5: once wait() has returned in iteration k, the log holds the record of
\* iteration k: its index, the probed address, the captured output and the
\* exit status of the worker.
C5_RunRecordLogged ==
    pc \in 48..51 =>
        /\ Logged("header") = <<Message("header", i + 1, "")>>
        /\ Logged("ip") = <<Message("ip", 0, ip)>>
        /\ Texts(Logged("line")) = LinesOf(terminal)
        /\ Logged("exit") = <<Message("exit", process.returncode, "")>>

\* the line the copy loop holds between reading it and printing it
InHand == IF pc = 41 THEN <<line>> ELSE <<>>

SpawnAttempted == Len(trace) >= 4 /\ trace[4] = "spawn"

\* C7: a failed proxy restart and a failed address probe leave the cycle
\* running: the statement after either is the one that follows in the text,
\* no iteration ends without a spawn attempt, and after a failed restart or
\* a failed probe the supervisor gets to log the probe result and to attempt
\* the spawn.
C7_ProbeFailureTolerated ==
    /\ [][(pc = 17 /\ pc' # 17) => pc' = 18]_vars
    /\ [][(pc = 23 /\ pc' # 23) => pc' = 24]_vars
    /\ [][(pc = 8 /\ pc' # 8) => (i = -1 \/ SpawnAttempted)]_vars
    /\ [](SpawnAttempted => Logged("ip") = <<Message("ip", 0, ip)>>)
    /\ ((pc = 18 /\ restart_rc = 1) ~> (SpawnAttempted /\ restart_rc = 1))
    /\ ((pc = 24 /\ ip = "") ~> (SpawnAttempted /\ ip = ""))

C7_Witness ==
    /\ restart_rc = 1
    /\ ip = ""
    /\ i + 1 \in DOMAIN children
    /\ Message("ip", 0, "") \in {logdisk[k] : k \in 1..Len(logdisk)}

\* C8: one worker is spawned per iteration, at most one child exists at any
\* time and it is the one `process` refers to, and the supervisor is at a
\* statement outside the copy loop and the wait only when no child exists:
\* it leaves the copy loop only at end of stream and the wait only once the
\* worker has exited.
C8_OneWorkerAtATime ==
    /\ spawned = (IF SpawnAttempted /\ fault # "spawn" THEN i + 1
                  ELSE IF i = -1 THEN 0 ELSE i)
    /\ Cardinality(DOMAIN children) <= 1
    /\ DOMAIN children \subseteq {process.id}
    /\ pc \notin {40, 41, 42, 43, 45, 46, Crashed} => children = <<>>
    /\ pc \in {45, 46} => (/\ process.id \in DOMAIN children
                           /\ children[process.id].pipe = <<>>
                           /\ children[process.id].state # "running")

C8_Witness ==
    /\ pc = 48
    /\ i = 1
    /\ spawned = 2
    /\ children = <<>>
    /\ process.returncode = 0

(***************************************************************************)
(* Properties of the engine                                                *)
(***************************************************************************)
\* both driver strategies have been tried and have failed
BothFailed == Len(tried) = 2 /\ ~tried[1].ok /\ ~tried[2].ok

\* C9: start_browser tries the undetected driver first and the standard
\* driver only after the first has failed; when both fail the session is
\* transport-only and start_browser returns true; from then on the mode
\* stays transport-only and no strategy is tried again, whatever is called.
C9_DegradationPermanent ==
    /\ [](/\ Len(tried) <= 2
          /\ Len(tried) >= 1 => tried[1].m = "undetected"
          /\ Len(tried) = 2 => (~tried[1].ok /\ tried[2].m = "standard"))
    /\ [](BothFailed => (Mode = "requests" /\ ~use_browser /\ driver = "none"))
    /\ [](ret.op = "start_browser" => ret.val = TRUE)
    /\ [][BothFailed => (BothFailed' /\ tried' = tried /\ Mode' = "requests")]_vars

C9_Witness ==
    /\ BothFailed
    /\ ret.op = "start_browser"
    /\ current_soup.loaded

\* the first element of the markup a selector matches, NoNode without one
FirstMatch(nodes, sel) ==
    LET hits == {k \in 1..Len(nodes) : Matches(nodes[k], sel)} IN
    IF hits = {} THEN NoNode
    ELSE nodes[CHOOSE k \in hits : \A h \in hits : k <= h]

\* the link records of a markup: one for every a element with a non-empty
\* href that is a URL reference, in document order, its url resolved
\* against base
LinkRecordsOf(nodes, base) ==
    LET ls == SelectSeq(nodes, LAMBDA n : n.tag = "a"
                                          /\ n.href \notin {AbsentRef, EmptyRef, BadRef})
    IN  [k \in 1..Len(ls) |->
            [url |-> urljoin(base, ls[k].href), text |-> ls[k].text,
             title |-> IF ls[k].title = Absent THEN "" ELSE ls[k].title]]

\* C10: in a session whose two browser strategies have failed, a goto that
\* returns true has stored the response's URL and parsed markup, and on a
\* loaded Document find returns the first element its selector matches,
\* extract_links the link records of the markup, and page_info the counts
\* of the markup with mode "requests".
C10_DegradedQueriesWork ==
    BothFailed =>
        /\ (ret.op = "goto" /\ ret.val) =>
               /\ served.status = 200
               /\ current_url = served.url
               /\ current_soup = Parse(served.html)
        /\ (ret.op = "find" /\ current_soup.loaded) =>
               ret.val = FirstMatch(current_soup.nodes, ret.arg)
        /\ (ret.op = "extract_links" /\ current_soup.loaded) =>
               ret.val = LinkRecordsOf(current_soup.nodes, current_url)
        /\ (ret.op = "get_page_info") =>
               /\ ret.val.mode = "requests"
               /\ ret.val.url = current_url
               /\ current_soup.loaded =>
                      /\ ret.val.title = TitleOf(current_soup.nodes)
                      /\ ret.val.links_count
                             = Cardinality({k \in 1..Len(current_soup.nodes) :
                                   Matches(current_soup.nodes[k], SelLinks)})
                      /\ ret.val.images_count
                             = Cardinality({k \in 1..Len(current_soup.nodes) :
                                   current_soup.nodes[k].tag = "img"})

C10_Witness ==
    /\ BothFailed
    /\ ret.op = "extract_links"
    /\ current_url = UrlP
    /\ Len(ret.val) = 2

\* the session state a caller can observe: the Document and the mode
Session == <<current_url, current_soup, use_browser, driver>>

\* C11: click and type_text called in a transport-only session do not
\* raise, leave the Document, the URL and the mode as they were, and return
\* an outcome that differs from the one they return in browser mode when
\* the element is not found or the driver action fails.
C11_UnsupportedExplicit ==
    /\ []((ret.op \in {"click", "type_text"} /\ Mode = "requests") =>
              /\ ~escaped
              /\ ret.val # ActionOutcome("not found")
              /\ ret.val # ActionOutcome("failed"))
    /\ [][(ret'.op \in {"click", "type_text"} /\ Mode = "requests") =>
              Session' = Session]_vars

\* C12: a goto in a transport-only session that receives a response whose
\* status is not 2xx returns false and leaves the current URL and the
\* parsed markup exactly as they were before the call.
C12_FailureStatusKeepsDocument ==
    [][(/\ ret'.op = "goto"
        /\ Mode = "requests"
        /\ served' # NoResponse
        /\ served'.status \notin 200..299)
       => (/\ ret'.val = FALSE
           /\ current_url' = current_url
           /\ current_soup' = current_soup)]_vars

C12_Witness ==
    /\ ret.op = "goto"
    /\ Mode = "requests"
    /\ served.status = 404
    /\ ret.val = FALSE
    /\ current_soup = Parse(MarkupP)
    /\ current_url = UrlP
    /\ ret.arg = UrlQ

\* C13: the current URL and the parsed markup of the session always come
\* from the same load, and a goto that returns false because a step of the
\* load raised, in browser mode or in transport-only mode, leaves both as
\* they were before the call.
C13_DocumentAtomic ==
    /\ [](current_soup = IF current_url = EmptyRef THEN NoSoup
                         ELSE Parse(MarkupAt(current_url)))
    /\ [][(ret'.op = "goto" /\ ret'.val = FALSE /\ faults' # {})
           => (current_url' = current_url /\ current_soup' = current_soup)]_vars

\* the form a submit_form step is about: the first match of the selector
\* it was called with, in the Document the session held before the step
TargetForm == SelectOne(current_soup.nodes, ret'.arg[2])

\* a submit_form step of a transport-only session that found its form
SubmitStep ==
    /\ ret'.op = "submit_form"
    /\ Mode = "requests"
    /\ current_soup.loaded
    /\ TargetForm # NoNode

\* the default value of a control of a form, Absent when it has none: the
\* value attribute of an input, the selected option of a select, the
\* content of a textarea
DefaultOf(f) == IF f.tag = "textarea" THEN f.text ELSE f.value

\* C15: a submit_form of a transport-only session sends every named
\* control of the target form that has a default value (an input of any
\* type, a textarea, a select) and that the caller's values do not name,
\* with that default value.
C15_DefaultsSubmitted ==
    [][SubmitStep =>
          \A k \in 1..Len(TargetForm.fields) :
              LET f == TargetForm.fields[k] IN
              (/\ f.name # Absent
               /\ f.type # "submit"
               /\ DefaultOf(f) # Absent
               /\ f.name \notin DOMAIN ret'.arg[1])
              => (/\ Len(sent') = 1
                  /\ f.name \in DOMAIN sent'[1].fields
                  /\ sent'[1].fields[f.name] = DefaultOf(f))]_vars

\* C16: a submit_form of a transport-only session sends one request, to
\* the form's action resolved against the current URL, or to the current
\* URL when the form has no action; the request is a POST when the form's
\* method is post and a GET otherwise; it carries the caller's value for
\* every field the caller names.
C16_OneRequestToAction ==
    [][SubmitStep =>
          /\ Len(sent') = 1
          /\ sent'[1].url = IF TargetForm.action \in {AbsentRef, EmptyRef}
                            THEN current_url
                            ELSE Resolve(current_url, TargetForm.action)
          /\ sent'[1].method = IF TargetForm.method \in {"post", "POST"}
                               THEN "POST" ELSE "GET"
          /\ \A n \in DOMAIN ret'.arg[1] :
                 /\ n \in DOMAIN sent'[1].fields
                 /\ sent'[1].fields[n] = ret'.arg[1][n]]_vars

\* the form with the field q of default "" is sent with q = cats by GET to
\* the URL of the page, and with the same values the other form by POST
C16_Witness ==
    /\ ret.op = "submit_form"
    /\ Mode = "requests"
    /\ Len(sent) = 1
    /\ sent[1].method = "GET"
    /\ sent[1].url = UrlP
    /\ sent[1].fields["q"] = "cats"
    /\ served.status = 200
    /\ current_url = UrlP

\* C17: a submit_form of a transport-only session whose request succeeds
\* (a response with a 2xx status) replaces the current URL and the parsed
\* markup by the response and returns true; when no Document is loaded, the
\* selector matches no form, the response has a failure status or the
\* request raises, it returns false and leaves both as they were.
C17_SubmitFrame ==
    [][(ret'.op = "submit_form" /\ Mode = "requests") =>
          /\ (faults' = {} /\ served' # NoResponse /\ served'.status \in 200..299)
              => (/\ ret'.val = TRUE
                  /\ current_url' = served'.url
                  /\ current_soup' = Parse(served'.html))
          /\ (\/ ~current_soup.loaded
              \/ TargetForm = NoNode
              \/ (served' # NoResponse /\ served'.status \notin 200..299)
              \/ Fault(0, "request") \in faults')
              => (/\ ret'.val = FALSE
                  /\ current_url' = current_url
                  /\ current_soup' = current_soup)]_vars

\* the operations whose documented default is false, and those whose
\* documented default is the empty string
Verdicts == {"goto", "click", "type_text", "submit_form", "search_google", "search_bing"}
Strings == {"get_text", "get_attribute"}

\* C14: after a call of a public operation during which the driver, the
\* HTTP session or the parser raised, no exception has left the operation
\* and the operation has returned its default: false, the absent element,
\* the empty string, the snapshot with nothing read from the page; an
\* extraction whose search for the elements raised has returned the empty
\* list (what it returns when a single element faults is the matter of C18).
C14_FailSoft ==
    faults # {} =>
        /\ ~escaped
        /\ ret.op \in Verdicts => ret.val = FALSE
        /\ ret.op = "find" => ret.val = NoNode
        /\ ret.op \in Strings => ret.val = ""
        /\ ret.op = "get_page_info" => ret.val = InfoDefaults
        /\ (ret.op \in {"extract_links", "extract_images"}
               /\ Fault(0, "find_elements") \in faults) => ret.val = <<>>

\* the elements an extraction looks at: those of the displayed page in
\* browser mode, those of the parsed markup otherwise, none with no Document
Shown ==
    IF InBrowserMode THEN browser_page.html
    ELSE IF current_soup.loaded THEN current_soup.nodes ELSE <<>>

\* the elements of Shown an extraction matches, in document order
Candidates ==
    IF ret.op = "extract_links"
    THEN SelectSeq(Shown, LAMBDA n : n.tag = "a" /\ n.href # AbsentRef)
    ELSE SelectSeq(Shown, LAMBDA n : n.tag = "img")

\* the positions in Candidates of the elements that have a non-empty href
\* (src), as the session reads it (the attribute of the parsed markup, the
\* property the browser reports), and whose processing did not fault
Yielding ==
    {k \in 1..Len(Candidates) :
        /\ (IF ret.op = "extract_links"
            THEN LinkFields(Candidates[k], "none").href
            ELSE ImageFields(Candidates[k], "none").src) # EmptyRef
        /\ \A f \in faults : f.node # k}

\* the k-th smallest member of a set of numbers
RECURSIVE Nth(_, _)
Nth(S, k) ==
    LET m == CHOOSE x \in S : \A y \in S : x <= y IN
    IF k = 1 THEN m ELSE Nth(S \ {m}, k - 1)

\* C18: extract_links and extract_images raise nothing and return one
\* record for every matching element that has a non-empty href (src) and
\* whose processing did not fault, in document order; with no matching
\* element, or no Document, they return the empty sequence.
C18_ExtractionPartial ==
    ret.op \in {"extract_links", "extract_images"} =>
        /\ ~escaped
        /\ IF Fault(0, "find_elements") \in faults
           THEN ret.val = <<>>
           ELSE /\ Len(ret.val) = Cardinality(Yielding)
                /\ \A k \in 1..Len(ret.val) :
                       LET n == Candidates[Nth(Yielding, k)] IN
                       IF ret.op = "extract_links"
                       THEN /\ ret.val[k].text = n.text
                            /\ ret.val[k].title = GetStr(n.title)
                       ELSE /\ ret.val[k].alt = GetStr(n.alt)
                            /\ ret.val[k].title = GetStr(n.title)

\* the href (src) value of the element that yielded the k-th record
ValueOf(k) ==
    LET n == Candidates[Nth(Yielding, k)] IN
    IF ret.op = "extract_links" THEN GetRef(n.href) ELSE GetRef(n.src)

\* C19: the url of every record of an extraction that met no fault is the
\* reference resolution (RFC 3986, section 5.2) of the element's href (src)
\* value against the current URL, and is an absolute URL.
C19_StandardResolution ==
    (ret.op \in {"extract_links", "extract_images"} /\ faults = {}) =>
        \A k \in 1..Len(ret.val) :
            /\ ret.val[k].url = Resolve(current_url, ValueOf(k))
            /\ IsAbsolute(ret.val[k].url)

\* the Document of the session was loaded from https://site/p, whose markup
\* has the links <a href="/a">X</a> and <a href="http://ext/b">Y</a>, and
\* the last call is an extract_links that met no fault
ScenarioExtracted ==
    /\ ret.op = "extract_links"
    /\ faults = {}
    /\ current_url = UrlP
    /\ IF InBrowserMode
       THEN browser_page = [url |-> UrlP, html |-> MarkupP]
       ELSE current_soup = Parse(MarkupP)

\* the url and the label of the records of the two links
ScenarioRecords ==
    LET recs == SelectSeq(ret.val, LAMBDA r : r.text \in {"X", "Y"}) IN
    [k \in 1..Len(recs) |-> <<recs[k].url, recs[k].text>>]

\* C20 as stated: the two links give the records (https://site/p/a, X)
\* and (http://ext/b, Y).
C20_ScenarioAsStated ==
    ScenarioExtracted =>
        ScenarioRecords = << <<Ref("https", "site", TRUE, <<"p", "a">>), "X">>,
                             <<Ref("http", "ext", TRUE, <<"b">>), "Y">> >>

\* C20: the two links give the records (https://site/a, X) and
\* (http://ext/b, Y), in this order; in a transport-only session they are
\* the only records.
C20_ScenarioResolved ==
    ScenarioExtracted =>
        /\ ScenarioRecords = << <<Ref("https", "site", TRUE, <<"a">>), "X">>,
                                <<Ref("http", "ext", TRUE, <<"b">>), "Y">> >>
        /\ Mode = "requests" => Len(ret.val) = 2

C20_Witness ==
    /\ ScenarioExtracted
    /\ Mode = "requests"
    /\ ~BothFailed
    /\ ret.val[1].url = Ref("https", "site", TRUE, <<"a">>)
    /\ ret.val[2].text = "Y"

\* an element with the tag, and with the name attribute when one is given
Has(nodes, tag, name) ==
    \E k \in 1..Len(nodes) :
        nodes[k].tag = tag /\ (name = "" \/ nodes[k].name = name)

\* a Document is there for get_page_info: a page displayed in browser
\* mode, a parsed markup otherwise
DocumentLoaded ==
    IF InBrowserMode THEN browser_page # NoPage ELSE current_soup.loaded

\* C21: a get_page_info that met no fault raises nothing; the title, the
\* description and the keywords of its snapshot are "" when the Document
\* has no title element, no meta description, no meta keywords; with no
\* Document every text field is "" and every count is 0.
C21_MissingDataTolerated ==
    (ret.op = "get_page_info" /\ faults = {}) =>
        /\ ~escaped
        /\ ~Has(Shown, "title", "") => ret.val.title = ""
        /\ ~Has(Shown, "meta", "description") => ret.val.description = ""
        /\ ~Has(Shown, "meta", "keywords") => ret.val.keywords = ""
        /\ ~DocumentLoaded =>
               /\ ret.val.title = "" /\ ret.val.description = ""
               /\ ret.val.keywords = ""
               /\ ret.val.links_count = 0 /\ ret.val.images_count = 0
               /\ ret.val.forms_count = 0 /\ ret.val.text_length = 0

\* the snapshot of the page without title and meta elements
C21_Witness ==
    /\ ret.op = "get_page_info"
    /\ faults = {}
    /\ Mode = "requests"
    /\ current_soup = Parse(MarkupQ)
    /\ ret.val.description = ""
    /\ ret.val.title = ""
    /\ ret.val.forms_count = 1

\* the markup of the page at a URL; none at the empty URL of a session
\* that has loaded nothing
PageAt(u) == IF u = EmptyRef THEN <<>> ELSE MarkupAt(u)

\* every field of the snapshot info describes the page at u
Describes(info, u) ==
    /\ info.url = u
    /\ info.title = TitleOf(PageAt(u))
    /\ info.description = MetaContent(PageAt(u), "description")
    /\ info.keywords = MetaContent(PageAt(u), "keywords")
    /\ info.links_count = Len(Select(PageAt(u), SelLinks))
    /\ info.images_count = Len(Select(PageAt(u), SelImages))
    /\ info.forms_count = Len(Select(PageAt(u), SelForms))
    /\ info.text_length = TextLength(PageAt(u))

\* C22: the snapshot of a get_page_info that met no fault describes one
\* page: its url, title, description, keywords, counts and text length are
\* those of the same page, and its mode is the mode of the session.
C22_SnapshotOfOnePage ==
    (ret.op = "get_page_info" /\ faults = {}) =>
        /\ \E u \in Urls \cup {EmptyRef} : Describes(ret.val, u)
        /\ ret.val.mode = Mode

\* the positions of the elements of the Document a selector matches
Hits(sel) ==
    {k \in 1..Len(current_soup.nodes) :
        current_soup.loaded /\ Matches(current_soup.nodes[k], sel)}

\* C23: in a transport-only session find and find_all make no driver call
\* (nothing can be waited for, nothing raises) and answer from the current
\* Document alone: find gives the first element the selector matches and
\* the absent element when there is no Document or no match; find_all
\* gives the matches in document order, the empty sequence in those cases.
C23_TransportFindImmediate ==
    (Mode = "requests" /\ ret.op \in {"find", "find_all"}) =>
        /\ ~escaped
        /\ faults = {}
        /\ ret.op = "find" =>
               ret.val = IF Hits(ret.arg) = {} THEN NoNode
                         ELSE current_soup.nodes[Nth(Hits(ret.arg), 1)]
        /\ ret.op = "find_all" =>
               /\ Len(ret.val) = Cardinality(Hits(ret.arg))
               /\ \A k \in 1..Len(ret.val) :
                      ret.val[k] = current_soup.nodes[Nth(Hits(ret.arg), k)]

\* a selector that matches nothing in a loaded Document, and a session
\* that never had a browser
C23_Witness ==
    /\ Mode = "requests"
    /\ tried = <<>>
    /\ ret = Returned("find_all", Sel("video", ""), <<>>)
    /\ current_soup = Parse(MarkupP)

\* the URLs main has had the session load, in the order of the calls
RECURSIVE LoadsOf(_)
LoadsOf(calls) ==
    IF calls = <<>> THEN <<>>
    ELSE (IF Head(calls).op = "goto" THEN <<Head(calls).arg>> ELSE <<>>)
             \o LoadsOf(Tail(calls))

\* C24: a worker started with --urls that has run to its end has loaded
\* the URLs of the command line, each once and in their order, and no
\* other, with or without --batch.
C24_UrlsOverrideBatch ==
    (main.pc = "done" /\ main.args.urls # <<>>) =>
        LoadsOf(main.calls) = main.args.urls

\* the navigation calls main has made: goto and the two searches
Navigations(calls) ==
    SelectSeq(calls, LAMBDA c : c.op \in {"goto", "search_google", "search_bing"})

\* the worker took the single-URL path and has run to its end
SingleDone ==
    /\ main.pc = "done"
    /\ ~main.args.interactive /\ ~main.args.batch /\ main.args.urls = <<>>

\* C25: a worker on the single-URL path makes exactly one navigation call:
\* search_google when --search has a query; otherwise search_bing when
\* --bing has one; otherwise goto on the URL of --url; otherwise goto on
\* the first entry of the internal list.
C25_SingleNavigation ==
    SingleDone =>
        LET a == main.args
            n == Navigations(main.calls)
        IN  /\ Len(n) = 1
            /\ IF a.search \notin {Absent, ""} THEN n[1].op = "search_google"
               ELSE IF a.bing \notin {Absent, ""} THEN n[1].op = "search_bing"
               ELSE IF a.url # AbsentRef THEN n[1] = [op |-> "goto", arg |-> a.url]
               ELSE /\ urls_to_process # <<>>
                    /\ n[1] = [op |-> "goto", arg |-> urls_to_process[1]]

\* --search, --bing and --url given together: the Google search alone
C25_Witness ==
    /\ SingleDone
    /\ main.args.search = "cats" /\ main.args.bing = "cats" /\ main.args.url = UrlQ
    /\ Len(main.calls) = 3
    /\ main.calls[2].op = "search_google"

\* main has constructed the session of the worker
SessionConstructed ==
    main.pc \in {"enter", "loop", "info", "links", "navigate", "exit", "done"}

\* C26: the session of a worker started with --tor is constructed with
\* use_tor set, on the batch path, the --urls path and the single-URL path.
C26_TorFlagPassed ==
    (SessionConstructed /\ main.args.tor) => use_tor

\* C27: when goto returns, the delay of the load has been taken if the load
\* succeeded and has not if it failed; and the session has a configuration
\* that skips the delay: a session constructed with stealth off, the flag of
\* the constructor for the measures that make the session look human, takes
\* no delay at all.
C27_PacedLoads ==
    ret.op = "goto" => (paced <=> (ret.val /\ stealth))

\* a step of a session that uses the anonymizing route
TorStep == use_tor

\* C29: in a session constructed with use_tor set, every load and every
\* form submission of a step goes through the SOCKS proxy, in browser mode
\* and in requests mode: no traffic of the step takes another route.
C29_TorRoutesAll ==
    [][TorStep => Routes \subseteq {Socks}]_vars

\* the page a step leaves on display: the page of the browser in browser
\* mode, the page of the response received in requests mode
Displayed == IF InBrowserMode THEN browser_page'
             ELSE [url |-> served'.url, html |-> served'.html]

\* the step is a click, a form submission or a search that returns success
\* and changes the page on display
PageChanged ==
    /\ ret'.op \in {"click", "submit_form", "search_google", "search_bing"}
    /\ ret'.val = TRUE
    /\ IF InBrowserMode THEN browser_page' # browser_page
       ELSE served' # NoResponse

\* C30: in browser mode as in requests mode, after a submit_form, a click
\* or a search that returns success and changes the page on display, the
\* URL and the parsed markup of the session are those of the new page.
C30_DocumentFollowsPage ==
    [][PageChanged =>
          /\ current_url' = Displayed.url
          /\ current_soup' = Parse(Displayed.html)]_vars

\* the step hands the element the caller kept to get_text or click, and
\* the operation reaches the element
Dereferenced ==
    /\ held.node # NoNode
    /\ \/ ret'.op = "get_text"
       \/ ret'.op = "click" /\ InBrowserMode
    /\ ret'.arg = held.node

\* a value of the session that is an element
IsNode(v) == "tag" \in DOMAIN v

\* C28: no operation of the session reaches an element after the page or
\* the tree it was found in has been replaced by a load, and between the
\* calls the URL and the tree the session keeps are no elements.
C28_NoStaleNode ==
    /\ [](~IsNode(current_url) /\ ~IsNode(current_soup))
    /\ [][Dereferenced => held.live]_vars

\* the operations that ask about the page and change nothing
QueryOps ==
    {"find", "find_all", "get_text", "get_attribute", "extract_links",
     "extract_images", "analyze_social_media_content", "get_page_info"}

\* C31: a step of find, find_all, get_text, get_attribute, extract_links,
\* extract_images, analyze_social_media_content or get_page_info leaves the
\* URL, the parsed markup and the mode of the session as they were, whether
\* the call gives its result or its default.
C31_QueriesFrame ==
    [][ret'.op \in QueryOps => Session' = Session]_vars

\* a query that fell back to its default on a loaded page: the driver
\* raised in get_text, which returned ""
C31_Witness ==
    /\ ret.op = "get_text"
    /\ ret.val = ""
    /\ faults # {}
    /\ current_url = UrlQ
    /\ current_soup = Parse(MarkupQ)

\* the worker runs process_multiple_urls: the --batch or the --urls path
BatchPath == main.pc # "none" /\ main.path \in {"batch", "urls"}

\* the calls of close main has made
Closes(calls) == Len(SelectSeq(calls, LAMBDA c : c.op = "close"))

\* C32: process_multiple_urls works through its list in one session, one
\* URL after the other: the results so far are those of the first URLs of
\* the list in their order, a URL is loaded only when all URLs before it
\* have their result, a load that fails gives the result success=false
\* for its URL and the loop goes on; at the end there is one result for
\* every URL and the session has been closed once, as the last call.
C32_BatchSequential ==
    BatchPath =>
        LET loads == LoadsOf(main.calls)
            res == main.results
        IN  /\ Len(res) <= Len(main.list)
            /\ \A j \in 1..Len(res) : res[j].url = main.list[j]
            /\ Len(loads) <= Len(main.list)
            /\ loads = SubSeq(main.list, 1, Len(loads))
            /\ Len(loads) - Len(res) \in {0, 1}
            /\ (ret.op = "goto" /\ ret.val = FALSE)
                  => (res # <<>> /\ res[Len(res)] = [url |-> ret.arg, success |-> FALSE])
            /\ Closes(main.calls) = IF main.pc = "done" THEN 1 ELSE 0
            /\ closed = (main.pc = "done")
            /\ main.pc = "done"
                  => /\ Len(res) = Len(main.list)
                     /\ main.calls[Len(main.calls)].op = "close"

\* a batch that has run to its end: the first URL did not load, the
\* second did
C32_Witness ==
    /\ BatchPath
    /\ main.pc = "done"
    /\ Len(main.results) = 4
    /\ ~main.results[1].success
    /\ main.results[2].success
    /\ Closes(main.calls) = 1

\* the worker was started with --browser and --headless and its session
\* has a browser
HeadlessAsked ==
    /\ SessionConstructed
    /\ main.args.browser /\ main.args.headless
    /\ driver # "none"

\* C33: the browser of a worker started with --browser and --headless was
\* started with the --headless argument, on the batch path, the --urls
\* path and the single-URL path.
C33_HeadlessPassed ==
    HeadlessAsked => "--headless" \in ChromeArguments(driver)

\* goto or submit_form in requests mode has received a response and
\* nothing raised
Answered ==
    /\ ~InBrowserMode
    /\ ret.op \in {"goto", "submit_form"}
    /\ served # NoResponse
    /\ faults = {}

\* C34: in requests mode goto and submit_form return True for a response
\* with a status from 200 to 299, and the URL and the tree of the session
\* are then those of the response; they return False for every other
\* status.
C34_Every2xxSucceeds ==
    Answered =>
        /\ ret.val = (served.status \in 200..299)
        /\ ret.val => /\ current_url = served.url
                      /\ current_soup = Parse(served.html)

====
